---- MODULE Spec2Model ----
(***************************************************************************)
(* CodeBased extraction pipeline: file walk, per-language parse, two-pass  *)
(* symbol resolution, store pass and the hash-ledger driven incremental    *)
(* updater (src/codebased/parsers/{base,typescript,python,extractor,       *)
(* incremental}.py, src/codebased/database/service.py).                    *)
(*                                                                         *)
(* Text is modelled as a sequence of tokens (a Python str is a Seq of TLA+ *)
(* strings), so startswith / slicing / concatenation are prefix, SubSeq    *)
(* and \o on sequences.  A digest (sha256, md5) is modelled as the         *)
(* injective tagging of its input.                                         *)
(***************************************************************************)
EXTENDS Integers, Sequences, FiniteSets, TLC

\* ------------------------------------------------------------------ bounds
MaxRuns == 2          \* number of extraction / update runs explored
BatchSize == 2        \* config.database.batch_size used by the store pass

\* ------------------------------------------------------------ text helpers
Range(s) == {s[i] : i \in 1..Len(s)}

StartsWith(s, pre) ==
    /\ Len(s) >= Len(pre)
    /\ SubSeq(s, 1, Len(pre)) = pre

EndsWith(s, suf) ==
    /\ Len(s) >= Len(suf)
    /\ SubSeq(s, Len(s) - Len(suf) + 1, Len(s)) = suf

DropPrefix(s, n) == SubSeq(s, n + 1, Len(s))

NumStr == <<"1", "2", "3", "4", "5", "6">>
Str(n) == IF n = 0 THEN "0" ELSE NumStr[n]

EmptyStr == <<>>

\* ---------------------------------------------------------------- the disk
\* A path is <<directory, stem, suffix>>; every file lives in the root.
PathOf(stem, suffix) == <<"/p/", stem, suffix>>
PathName(p) == <<p[2], p[3]>>
PathStem(p) == <<p[2]>>
PathSuffix(p) == p[3]

TsPaths == {PathOf("a", ".ts"), PathOf("b", ".ts")}
PyPaths == {PathOf("m", ".py")}
AllPaths == TsPaths \cup PyPaths

\* What a path holds: nothing, a file that cannot be read, or readable bytes
Absent == "absent"
Unreadable == "unreadable"
Contents == {"c1", "c2"}
BrokenContents == {"c3"}
AllContents == Contents \cup BrokenContents
PyContents == {"c4"}      \* Python text with nested definitions

\* The program text behind each content, as the statements a parser sees.
\*   c1: import { x } from './b';        c2: import { y } from '@angular/core';
\*       function f() { g(); }               function h() { }
\*   c3: import { x } from './b';        c4: class K:
\*       function f( {                           def m(self):
\*       (does not parse)                            v = 1
\* in_class / in_func name the class and the function a statement is in.
Enclosing(name, line) == [name |-> name, line |-> line]
NoEnclosing == Enclosing(EmptyStr, 0)

ImportStmt(line, module, names) ==
    [kind |-> "import", name |-> <<"import">>, line_start |-> line, line_end |-> line,
     module |-> module, names |-> names, calls |-> <<>>,
     in_class |-> NoEnclosing, in_func |-> NoEnclosing, is_async |-> FALSE]
FunctionStmt(name, ls, le, calls) ==
    [kind |-> "function", name |-> name, line_start |-> ls, line_end |-> le,
     module |-> EmptyStr, names |-> <<>>, calls |-> calls,
     in_class |-> NoEnclosing, in_func |-> NoEnclosing, is_async |-> FALSE]
ClassStmt(name, ls, le) ==
    [kind |-> "class", name |-> name, line_start |-> ls, line_end |-> le,
     module |-> EmptyStr, names |-> <<>>, calls |-> <<>>,
     in_class |-> NoEnclosing, in_func |-> NoEnclosing, is_async |-> FALSE]
VariableStmt(name, line) ==
    [kind |-> "variable", name |-> name, line_start |-> line, line_end |-> line,
     module |-> EmptyStr, names |-> <<>>, calls |-> <<>>,
     in_class |-> NoEnclosing, in_func |-> NoEnclosing, is_async |-> FALSE]
Within(st, cls, func) == [st EXCEPT !.in_class = cls, !.in_func = func]
\* a declaration whose text contains "async"
Async(st) == [st EXCEPT !.is_async = TRUE]

\* Python text that defines a function and calls it from another one:
\*     def <name>(): pass
\*     def caller(): <name>()
\* one content for each spelling of <name>
CallContents == {"n1", "n2", "n3", "n4", "n5", "n6"}
Spelling(c) ==
    CASE c = "n1" -> <<"g">>
      [] c = "n2" -> <<"module_", "x">>
      [] c = "n3" -> <<"template_", "x">>
      [] c = "n4" -> <<"style_", "x">>
      [] c = "n5" -> <<"export_", "x">>
      [] OTHER -> <<"external_", "x">>

Source(c) ==
    CASE c = "c1" -> [lines |-> 2, ok |-> TRUE,
                   stmts |-> << ImportStmt(1, <<"./", "b">>, << <<"x">> >>),
                                FunctionStmt(<<"f">>, 2, 2, << <<"g">> >>) >>]
      [] c = "c2" -> [lines |-> 2, ok |-> TRUE,
                   stmts |-> << ImportStmt(1, <<"@", "angular/core">>, << <<"y">> >>),
                                FunctionStmt(<<"h">>, 2, 2, <<>>) >>]
      [] c = "c4" -> [lines |-> 3, ok |-> TRUE,
                   stmts |-> << ClassStmt(<<"K">>, 1, 3),
                                Within(FunctionStmt(<<"m">>, 2, 3, <<>>),
                                       Enclosing(<<"K">>, 1), NoEnclosing),
                                Within(VariableStmt(<<"v">>, 3),
                                       Enclosing(<<"K">>, 1), Enclosing(<<"m">>, 2)) >>]
      [] c = "c5" -> [lines |-> 2, ok |-> TRUE,
                   stmts |-> << FunctionStmt(<<"f">>, 1, 1, <<>>),
                                Async(FunctionStmt(<<"f">>, 1, 1, <<>>)),
                                FunctionStmt(<<"h">>, 2, 2, <<>>) >>]
      [] c = "c6" -> [lines |-> 2, ok |-> TRUE,
                   stmts |-> << ImportStmt(1, <<"./", "y", ".css">>, <<>>) >>]
      [] c = "c7" -> [lines |-> 1, ok |-> TRUE, stmts |-> <<>>]
      [] c \in CallContents ->
                  [lines |-> 2, ok |-> TRUE,
                   stmts |-> << FunctionStmt(Spelling(c), 1, 1, <<>>),
                                FunctionStmt(<<"caller">>, 2, 2, <<Spelling(c)>>) >>]
      [] OTHER -> [lines |-> 2, ok |-> FALSE,
                   stmts |-> << ImportStmt(1, <<"./", "b">>, << <<"x">> >>) >>]

\* TypeScript text that declares f twice on its first line, once async
DupContents == {"c5"}

\* style sheets:  c6: @import './y.css';      c7: .b { }
\*                    .a { }
CssContents == {"c6", "c7"}

Readable(v) ==
    v \in AllContents \cup PyContents \cup DupContents \cup CssContents \cup CallContents

\* ------------------------------------------------------------------ hashes
Sha256Bytes(c) == <<"sha256", c>>
Md5Text(c) == <<"md5", c>>

\* BaseParser._calculate_file_hash / IncrementalUpdater._calculate_file_hash
CalculateFileHash(v) == IF Readable(v) THEN Sha256Bytes(v) ELSE EmptyStr

\* ---------------------------------------------------------------- entities
NoMeta == [hash |-> EmptyStr, file_id |-> EmptyStr, class_id |-> EmptyStr,
           module_id |-> EmptyStr, is_async |-> FALSE]

ParsedEntity(id, name, type, path, ls, le, meta) ==
    [id |-> id, name |-> name, type |-> type, file_path |-> path,
     line_start |-> ls, line_end |-> le, metadata |-> meta]

ParsedRelationship(from, to, type) ==
    [from_id |-> from, to_id |-> to, relationship_type |-> type]

ParseResult(entities, relationships, file_hash, path, errors) ==
    [entities |-> entities, relationships |-> relationships,
     file_hash |-> file_hash, file_path |-> path, errors |-> errors]

\* BaseParser._generate_entity_id: sha256 over path:type:name:line[:line_end]
GenerateEntityId(name, path, ls, type, le) ==
    <<"sha256">> \o path \o <<":", type, ":">> \o name \o <<":", Str(ls)>>
        \o (IF le # 0 /\ le # ls THEN <<":", Str(le)>> ELSE <<>>)

Unresolved == <<"unresolved:">>

RECURSIVE Flatten(_)
Flatten(ss) == IF ss = <<>> THEN <<>> ELSE Head(ss) \o Flatten(Tail(ss))

\* the first of the positions I of a list that a loop runs over, 0 if none
FirstIndex(I) == IF I = {} THEN 0 ELSE CHOOSE i \in I : \A j \in I : i <= j

\* ------------------------------------------------------- TypeScript parser
\* TypeScriptParser._create_file_entity: the hash attribute is md5 of the text
TsCreateFileEntity(path, c) ==
    ParsedEntity(GenerateEntityId(PathName(path), path, 1, "File", Source(c).lines),
                 PathName(path), "File", path, 1, Source(c).lines,
                 [NoMeta EXCEPT !.hash = Md5Text(c)])

\* TypeScriptParser._create_entity_from_node for one declaration
TsCreateEntityFromNode(path, st) ==
    LET type == IF st.kind = "import" THEN "Import" ELSE "Function"
    IN ParsedEntity(GenerateEntityId(st.name, path, st.line_start, type, st.line_end),
                    st.name, type, path, st.line_start, st.line_end,
                    [NoMeta EXCEPT !.is_async = (type = "Function" /\ st.is_async)])

\* TypeScriptParser._extract_entities_from_node
TsExtractEntities(path, c) ==
    <<TsCreateFileEntity(path, c)>> \o
    [i \in 1..Len(Source(c).stmts) |-> TsCreateEntityFromNode(path, Source(c).stmts[i])]

\* TypeScriptParser._find_containing_function: smallest enclosing callable
TsFindContainingFunction(entities, line) ==
    LET Encloses(i) == /\ entities[i].type \in {"Function", "Method", "Constructor"}
                       /\ entities[i].line_start <= line
                       /\ line <= entities[i].line_end
        Span(i) == entities[i].line_end - entities[i].line_start
        cands == {i \in 1..Len(entities) : Encloses(i)}
    IN IF cands = {} THEN 0
       ELSE CHOOSE i \in cands :
              \A j \in cands : Span(i) < Span(j) \/ (Span(i) = Span(j) /\ i <= j)

\* TypeScriptParser._extract_import_export_relationships (import_statement)
TsImportRelationships(entities, st) ==
    LET file == entities[1]
        imp == FirstIndex({i \in 1..Len(entities) :
                 entities[i].type = "Import" /\ entities[i].line_start = st.line_start})
    IN <<ParsedRelationship(file.id, Unresolved \o <<"module_">> \o st.module, "IMPORTS")>>
       \o (IF imp # 0
           THEN <<ParsedRelationship(file.id, entities[imp].id, "FILE_CONTAINS_IMPORT")>>
           ELSE <<>>)
       \o [i \in 1..Len(st.names) |->
             ParsedRelationship(file.id, Unresolved \o <<"external_">> \o st.names[i], "USES")]

\* TypeScriptParser._extract_function_call_relationships: the target is the
\* literal "function_<name>", without the unresolved: prefix
TsCallRelationships(entities, st) ==
    LET caller == TsFindContainingFunction(entities, st.line_start)
    IN IF caller = 0 THEN <<>>
       ELSE [i \in 1..Len(st.calls) |->
              ParsedRelationship(entities[caller].id, <<"function_">> \o st.calls[i], "CALLS")]

\* TypeScriptParser._extract_relationships_from_node
TsExtractRelationships(entities, c) ==
    Flatten([i \in 1..Len(Source(c).stmts) |->
               IF Source(c).stmts[i].kind = "import"
               THEN TsImportRelationships(entities, Source(c).stmts[i])
               ELSE TsCallRelationships(entities, Source(c).stmts[i])])

ParseError(path) == <<"Failed to parse">> \o path

\* TreeSitterParser.parse_file.  v is what the path holds; treeNone says
\* whether _parse_source_code returned None.  tree-sitter recovers from
\* syntax errors, so a tree of the statements it recognised is the usual
\* outcome for text that does not parse.
TreeSitterParseFile(path, v, treeNone) ==
    IF ~Readable(v)
    THEN ParseResult(<<>>, <<>>, CalculateFileHash(v), path, <<ParseError(path)>>)
    ELSE IF treeNone
    THEN ParseResult(<<>>, <<>>, CalculateFileHash(v), path,
                     << <<"Failed to parse with tree-sitter">> >>)
    ELSE LET entities == TsExtractEntities(path, v)
         IN ParseResult(entities, TsExtractRelationships(entities, v),
                        CalculateFileHash(v), path, <<>>)

\* ----------------------------------------------------------- Python parser
\* PythonASTVisitor._generate_id: md5 over the non-empty parts of
\* file_path:module_name:class stack:function stack:type:name:line
PyGenerateId(path, context, type, name, line) ==
    <<"md5">> \o path \o <<":">> \o PathStem(path) \o <<":">>
        \o (IF context = <<>> THEN <<>> ELSE context \o <<":">>)
        \o <<type, ":">> \o name \o <<":", Str(line)>>

\* PythonASTVisitor._create_file_entity: metadata carries no hash
PyCreateFileEntity(path, c) ==
    ParsedEntity(PyGenerateId(path, <<>>, "file", path, 1), PathName(path), "File",
                 path, 1, Source(c).lines, NoMeta)

PyFileId(path) == PyGenerateId(path, <<>>, "file", path, 1)
PyModuleId(path) == PyGenerateId(path, <<>>, "module", PathStem(path), 1)

\* PythonASTVisitor.visit_Module (the entity and its containment edge)
PyModuleEntity(path, c) ==
    ParsedEntity(PyModuleId(path), PathStem(path), "Module", path, 1, Source(c).lines,
                 [NoMeta EXCEPT !.file_id = PyFileId(path)])

\* class_name_stack and function_name_stack at the time _generate_id is
\* called for a statement (a definition pushes its own name first)
PyClassStack(st) ==
    IF st.kind = "class"
    THEN (IF st.in_class.name # EmptyStr THEN st.in_class.name \o <<".">> ELSE <<>>)
         \o st.name
    ELSE st.in_class.name
PyFunctionStack(st) ==
    IF st.kind = "function"
    THEN (IF st.in_func.name # EmptyStr THEN st.in_func.name \o <<".">> ELSE <<>>)
         \o st.name
    ELSE st.in_func.name
PyContext(st) ==
    IF PyClassStack(st) = <<>> THEN PyFunctionStack(st)
    ELSE IF PyFunctionStack(st) = <<>> THEN PyClassStack(st)
    ELSE PyClassStack(st) \o <<":">> \o PyFunctionStack(st)

\* self.current_class / self.current_function while the statement is visited
PyCurrentClass(path, st) ==
    IF st.in_class.name = EmptyStr THEN EmptyStr
    ELSE PyGenerateId(path, st.in_class.name, "class", st.in_class.name, st.in_class.line)
PyCurrentFunction(path, st) ==
    IF st.in_func.name = EmptyStr THEN EmptyStr
    ELSE PyGenerateId(path,
           (IF st.in_class.name # EmptyStr THEN st.in_class.name \o <<":">> ELSE <<>>)
             \o st.in_func.name,
           "function", st.in_func.name, st.in_func.line)

\* PythonASTVisitor.visit_ImportFrom / visit_ClassDef / visit_FunctionDef /
\* visit_Assign: the entity
PyStmtEntity(path, st) ==
    IF st.kind = "import"
    THEN ParsedEntity(PyGenerateId(path, PyContext(st), "import",
                                   st.module \o <<".">> \o st.names[1], st.line_start),
                      st.names[1], "Import", path, st.line_start, st.line_start,
                      [NoMeta EXCEPT !.file_id = PyFileId(path)])
    ELSE IF st.kind = "class"
    THEN ParsedEntity(PyGenerateId(path, PyContext(st), "class", st.name, st.line_start),
                      st.name, "Class", path, st.line_start, st.line_end,
                      [NoMeta EXCEPT !.file_id = PyFileId(path),
                                     !.module_id = PyModuleId(path)])
    ELSE IF st.kind = "variable"
    THEN ParsedEntity(PyGenerateId(path, PyContext(st), "variable", st.name,
                                   st.line_start),
                      st.name, "Variable", path, st.line_start, st.line_start,
                      [NoMeta EXCEPT !.file_id = PyFileId(path)])
    ELSE ParsedEntity(PyGenerateId(path, PyContext(st), "function", st.name,
                                   st.line_start),
                      st.name, "Function", path, st.line_start, st.line_end,
                      [NoMeta EXCEPT !.file_id = PyFileId(path),
                                     !.module_id = PyModuleId(path),
                                     !.class_id = PyCurrentClass(path, st)])

\* the "Create appropriate CONTAINS relationship" branches of the visitor
PyContainsRelationships(path, st) ==
    LET both(id, kind) ==
          <<ParsedRelationship(PyModuleId(path), id, "MODULE_CONTAINS_" \o kind),
            ParsedRelationship(PyFileId(path), id, "FILE_CONTAINS_" \o kind)>>
        Contains(id, cls, func) ==
           CASE st.kind = "import" ->
                 <<ParsedRelationship(PyFileId(path), id, "FILE_CONTAINS_IMPORT")>>
            [] st.kind = "class" ->
                 IF cls # EmptyStr
                 THEN <<ParsedRelationship(cls, id, "CLASS_CONTAINS_CLASS")>>
                 ELSE both(id, "CLASS")
            [] st.kind = "function" ->
                 IF cls # EmptyStr
                 THEN <<ParsedRelationship(cls, id, "CLASS_CONTAINS_FUNCTION")>>
                 ELSE IF func # EmptyStr
                 THEN <<ParsedRelationship(func, id, "FUNCTION_CONTAINS_FUNCTION")>>
                 ELSE both(id, "FUNCTION")
            [] OTHER ->
                 IF func # EmptyStr
                 THEN <<ParsedRelationship(func, id, "FUNCTION_CONTAINS_VARIABLE")>>
                 ELSE IF cls # EmptyStr
                 THEN <<ParsedRelationship(cls, id, "CLASS_CONTAINS_VARIABLE"),
                        ParsedRelationship(PyFileId(path), id, "FILE_CONTAINS_VARIABLE")>>
                 ELSE both(id, "VARIABLE")
    IN Contains(PyStmtEntity(path, st).id, PyCurrentClass(path, st),
                PyCurrentFunction(path, st))

\* the containment edges of a statement and the CALLS edges of visit_Call
\* inside a function
PyStmtRelationships(path, st) ==
    PyContainsRelationships(path, st)
      \o [i \in 1..Len(st.calls) |->
            ParsedRelationship(PyStmtEntity(path, st).id, Unresolved \o st.calls[i],
                               "CALLS")]

\* PythonASTParser.parse_file
PythonParseFile(path, v) ==
    IF ~Readable(v)
    THEN ParseResult(<<>>, <<>>, EmptyStr, path, <<ParseError(path)>>)
    ELSE IF ~Source(v).ok
    THEN ParseResult(<<>>, <<>>, CalculateFileHash(v), path,
                     << <<"Syntax error in">> \o path >>)
    ELSE ParseResult(
           <<PyCreateFileEntity(path, v), PyModuleEntity(path, v)>>
             \o [i \in 1..Len(Source(v).stmts) |-> PyStmtEntity(path, Source(v).stmts[i])],
           <<ParsedRelationship(PyFileId(path), PyModuleId(path), "FILE_CONTAINS_MODULE")>>
             \o Flatten([i \in 1..Len(Source(v).stmts) |->
                           PyStmtRelationships(path, Source(v).stmts[i])]),
           CalculateFileHash(v), path, <<>>)

\* -------------------------------------------------------------- CSS parser
\* CSSParser._create_css_file_entity: the metadata carries no hash
CssCreateFileEntity(path, c) ==
    ParsedEntity(GenerateEntityId(PathName(path), path, 1, "File", Source(c).lines),
                 PathName(path), "File", path, 1, Source(c).lines, NoMeta)

\* CSSParser._extract_css_features: one IMPORTS_STYLE edge per @import
CssExtractFeatures(file, c) ==
    [i \in 1..Len(Source(c).stmts) |->
       ParsedRelationship(file.id, Unresolved \o <<"style_">> \o Source(c).stmts[i].module,
                          "IMPORTS_STYLE")]

\* CSSParser.parse_file
CssParseFile(path, v) ==
    IF ~Readable(v)
    THEN ParseResult(<<>>, <<>>, EmptyStr, path, <<ParseError(path)>>)
    ELSE ParseResult(<<CssCreateFileEntity(path, v)>>,
                     CssExtractFeatures(CssCreateFileEntity(path, v), v),
                     CalculateFileHash(v), path, <<>>)

\* ------------------------------------------------------------ file types
\* A file name is the sequence of its dot-separated segments:
\* <<"app", "component", "ts">> is app.component.ts, <<"", "ts">> is .ts
Segments ==
    {"", "app", "component", "Component", "module", "service", "guard", "pipe", "ts",
     "TS", "html", "css", "py", "txt", "Dockerfile"}

MaxSegments == 3

\* names of one to MaxSegments segments, only the first of which may be empty
FileNames ==
    UNION {{n \in [1..k -> Segments] : /\ n # <<"">>
                                       /\ \A i \in 2..k : n[i] # ""} : k \in 1..MaxSegments}

\* str.lower on a segment
Lower(seg) ==
    CASE seg = "Component" -> "component"
      [] seg = "TS" -> "ts"
      [] seg = "Dockerfile" -> "dockerfile"
      [] OTHER -> seg

LowerName(name) == [i \in 1..Len(name) |-> Lower(name[i])]

\* FILE_TYPE_PATTERNS, in the order of the dictionary; <<"component", "ts">>
\* is the pattern .component.ts
FileTypePatterns ==
    <<[pattern |-> <<"component", "ts">>,   ftype |-> "angular"],
      [pattern |-> <<"module", "ts">>,      ftype |-> "angular"],
      [pattern |-> <<"service", "ts">>,     ftype |-> "angular"],
      [pattern |-> <<"guard", "ts">>,       ftype |-> "angular"],
      [pattern |-> <<"pipe", "ts">>,        ftype |-> "angular"],
      [pattern |-> <<"component", "html">>, ftype |-> "angular"],
      [pattern |-> <<"component", "css">>,  ftype |-> "angular"]>>

\* FILE_TYPE_MAPPINGS: the keys that start with a dot, without the dot
ExtensionMappings ==
    [e \in {"py", "pyw", "pyi", "js", "jsx", "mjs", "ts", "tsx", "html", "htm", "css",
            "scss", "sass", "json", "yml", "yaml", "md"} |->
       CASE e \in {"py", "pyw", "pyi"} -> "python"
         [] e \in {"js", "jsx", "mjs"} -> "javascript"
         [] e \in {"ts", "tsx"} -> "typescript"
         [] e \in {"html", "htm"} -> "html"
         [] e \in {"css", "scss", "sass"} -> "css"
         [] e = "json" -> "json"
         [] e \in {"yml", "yaml"} -> "yaml"
         [] e = "md" -> "markdown"]

\* `name in FILE_TYPE_MAPPINGS` for a whole file name: Dockerfile, or a name
\* that is a dot and a mapped extension
NameInMappings(name) ==
    \/ name = <<"Dockerfile">>
    \/ Len(name) = 2 /\ name[1] = "" /\ name[2] \in DOMAIN ExtensionMappings

NameMapping(name) ==
    IF name = <<"Dockerfile">> THEN "dockerfile" ELSE ExtensionMappings[name[2]]

\* str.endswith of a pattern that starts with a dot
NameEndsWith(name, pattern) ==
    /\ Len(name) > Len(pattern)
    /\ SubSeq(name, Len(name) - Len(pattern) + 1, Len(name)) = pattern

\* Path.suffix, without the dot; "" when the only dot is the leading one
Suffix(name) ==
    IF Len(name) < 2 \/ (Len(name) = 2 /\ name[1] = "") THEN "" ELSE name[Len(name)]

\* get_file_type that looks at the extension map before the patterns
GetFileTypeExtensionFirst(name) ==
    LET extension == Lower(Suffix(name))
        i == FirstIndex({k \in 1..Len(FileTypePatterns) :
                           NameEndsWith(LowerName(name), FileTypePatterns[k].pattern)})
    IN IF extension = "" /\ NameInMappings(name) THEN NameMapping(name)
       ELSE IF extension \in DOMAIN ExtensionMappings THEN ExtensionMappings[extension]
       ELSE IF i # 0 THEN FileTypePatterns[i].ftype
       ELSE "none"

\* file_types.get_file_type on a file name; "none" is None
GetFileTypeOfName(name) ==
    LET name_lower == LowerName(name)
        i == FirstIndex({k \in 1..Len(FileTypePatterns) :
                           NameEndsWith(name_lower, FileTypePatterns[k].pattern)})
        extension == Lower(Suffix(name))
    IN IF i # 0 THEN FileTypePatterns[i].ftype
       ELSE IF extension = "" /\ NameInMappings(name) THEN NameMapping(name)
       ELSE IF extension \in DOMAIN ExtensionMappings THEN ExtensionMappings[extension]
       ELSE "none"

\* Path(file_path).name of a path of the disk, as segments
PathSegments(path) ==
    <<path[2], CASE PathSuffix(path) = ".ts" -> "ts"
                 [] PathSuffix(path) = ".py" -> "py"
                 [] PathSuffix(path) = ".tsx" -> "tsx"
                 [] PathSuffix(path) = ".css" -> "css"
                 [] OTHER -> PathSuffix(path)>>

\* file_types.get_file_type on a path of the disk
GetFileType(path) == GetFileTypeOfName(PathSegments(path))

\* PARSER_REGISTRY order and each parser's SUPPORTED_FILE_TYPES; the Python
\* parser declares SUPPORTED_EXTENSIONS and inherits the empty type set
Parsers == <<"python", "css", "typescript">>
SupportedFileTypes(parser) ==
    CASE parser = "typescript" -> {"typescript"}
      [] parser = "css" -> {"css", "scss", "sass", "angular_style"}
      [] OTHER -> {}

\* can_parse: PythonASTParser overrides it by suffix, the others by file type
CanParse(parser, path) ==
    IF parser = "python" THEN PathSuffix(path) = ".py"
    ELSE GetFileType(path) \in SupportedFileTypes(parser)

\* EntityExtractor._get_parser_for_file: first parser that accepts the path
GetParserForFile(path) ==
    LET i == FirstIndex({k \in 1..Len(Parsers) : CanParse(Parsers[k], path)})
    IN IF i = 0 THEN "none" ELSE Parsers[i]

\* parser.parse_file for the parser the extractor picks
ParseFile(path, v, treeNone) ==
    IF GetParserForFile(path) = "python" THEN PythonParseFile(path, v)
    ELSE IF GetParserForFile(path) = "css" THEN CssParseFile(path, v)
    ELSE TreeSitterParseFile(path, v, treeNone)

\* --------------------------------------------------------- symbol registry
\* The registry is a dict: a sequence of (key, entity) in insertion order.
RegistryHas(reg, key) == \E i \in 1..Len(reg) : reg[i].key = key
RegistryGet(reg, key) == reg[CHOOSE i \in 1..Len(reg) : reg[i].key = key].entity

\* EntityExtractor._is_more_specific
Weight(entity) ==
    (IF entity.metadata.class_id # EmptyStr THEN 2 ELSE 0)
    + (IF entity.metadata.module_id # EmptyStr THEN 1 ELSE 0)
\* a comparison that lets an equally specific entity replace the entry
IsAtLeastAsSpecific(entity1, entity2) == Weight(entity1) >= Weight(entity2)

IsMoreSpecific(entity1, entity2) == Weight(entity1) > Weight(entity2)

\* EntityExtractor._get_entity_name_by_id; <<>> stands for None
GetEntityNameById(reg, id) ==
    LET i == FirstIndex({k \in 1..Len(reg) : reg[k].entity.id = id})
    IN IF i = 0 THEN EmptyStr ELSE reg[i].entity.name

\* the lookup keys _register_symbol builds for an entity
SymbolKeys(reg, entity) ==
    << entity.name >>
    \o (IF entity.type = "File"
        THEN << <<"file:">> \o entity.file_path >>
             \o (IF PathSuffix(entity.file_path) \in {".css", ".scss", ".sass"}
                 THEN << <<"style:">> \o PathName(entity.file_path),
                         <<"style:", "./">> \o PathName(entity.file_path),
                         <<"style:">> \o entity.file_path >>
                 ELSE IF PathSuffix(entity.file_path) \in {".ts", ".js", ".tsx", ".jsx"}
                 THEN << <<"module:">> \o PathStem(entity.file_path) >>
                 ELSE <<>>)
        ELSE <<>>)
    \o (IF /\ entity.type = "Function"
           /\ GetEntityNameById(reg, entity.metadata.class_id) # EmptyStr
        THEN << GetEntityNameById(reg, entity.metadata.class_id) \o <<".">> \o entity.name >>
        ELSE <<>>)
    \o (IF /\ entity.type = "Class"
           /\ GetEntityNameById(reg, entity.metadata.module_id) # EmptyStr
        THEN << GetEntityNameById(reg, entity.metadata.module_id) \o <<".">> \o entity.name >>
        ELSE <<>>)

\* one iteration of "Register under all keys"
RegisterKey(reg, key, entity) ==
    IF ~RegistryHas(reg, key)
    THEN Append(reg, [key |-> key, entity |-> entity])
    ELSE [i \in 1..Len(reg) |->
            IF reg[i].key = key /\ IsMoreSpecific(entity, reg[i].entity)
            THEN [key |-> key, entity |-> entity]
            ELSE reg[i]]

RECURSIVE RegisterKeys(_, _, _)
RegisterKeys(reg, keys, entity) ==
    IF keys = <<>> THEN reg
    ELSE RegisterKeys(RegisterKey(reg, Head(keys), entity), Tail(keys), entity)

\* EntityExtractor._register_symbol
RegisterSymbol(reg, entity) == RegisterKeys(reg, SymbolKeys(reg, entity), entity)

RECURSIVE RegisterAll(_, _)
RegisterAll(reg, entities) ==
    IF entities = <<>> THEN reg
    ELSE RegisterAll(RegisterSymbol(reg, Head(entities)), Tail(entities))

\* ---------------------------------------------------------------- resolver
WellKnownPackages == { <<"rxjs">>, <<"lodash">>, <<"moment">>, <<"axios">> }

\* EntityExtractor._resolve_module_reference; <<>> stands for None
ResolveModuleReference(reg, module_path) ==
    IF \/ StartsWith(module_path, <<"@">>)
       \/ module_path \in WellKnownPackages
       \/ StartsWith(module_path, <<"node_modules">>)
    THEN EmptyStr
    ELSE IF RegistryHas(reg, <<"module:">> \o module_path)
    THEN RegistryGet(reg, <<"module:">> \o module_path).id
    ELSE IF /\ StartsWith(module_path, <<"./">>)
            /\ RegistryHas(reg, <<"module:">> \o DropPrefix(module_path, 1))
    THEN RegistryGet(reg, <<"module:">> \o DropPrefix(module_path, 1)).id
    ELSE IF RegistryHas(reg, <<"file:">> \o module_path)
    THEN RegistryGet(reg, <<"file:">> \o module_path).id
    ELSE EmptyStr

\* os.path.isabs and, for the flat names of the model, Path(p).name
IsAbs(path) == path # <<>> /\ path[1] = "/p/"
BaseName(path) ==
    IF IsAbs(path) THEN DropPrefix(path, 1)
    ELSE IF StartsWith(path, <<"./">>) THEN DropPrefix(path, 1)
    ELSE path

\* _create_template_resolution_patterns / _create_style_resolution_patterns
\* without a component path, in the order they are tried
ResolutionPatterns(path) ==
    <<path>>
    \o (IF IsAbs(path) THEN <<path, BaseName(path)>>
        ELSE (IF StartsWith(path, <<"./">>) THEN <<DropPrefix(path, 1)>> ELSE <<>>)
             \o <<BaseName(path)>>
             \o (IF ~StartsWith(path, <<"./">>) THEN << <<"./">> \o path >> ELSE <<>>))

\* EntityExtractor._resolve_template_reference (kind "template:") and
\* _resolve_style_reference (kind "style:"); <<>> stands for None
ResolvePathReference(reg, kind, path) ==
    LET patterns == ResolutionPatterns(path)
        Hit(i) == \/ RegistryHas(reg, <<kind>> \o patterns[i])
                  \/ RegistryHas(reg, <<"file:">> \o patterns[i])
        i == FirstIndex({k \in 1..Len(patterns) : Hit(k)})
    IN IF i = 0 THEN EmptyStr
       ELSE IF RegistryHas(reg, <<kind>> \o patterns[i])
       THEN RegistryGet(reg, <<kind>> \o patterns[i]).id
       ELSE RegistryGet(reg, <<"file:">> \o patterns[i]).id

\* EntityExtractor._resolve_symbol_reference; <<>> stands for None
ResolveSymbolReference(reg, ref) ==
    IF ~StartsWith(ref, Unresolved) THEN ref
    ELSE LET symbol_name == DropPrefix(ref, 1)
             qual == FirstIndex({k \in 1..Len(reg) :
                        \/ EndsWith(reg[k].key, <<".">> \o symbol_name)
                        \/ EndsWith(symbol_name, <<".">> \o reg[k].key)})
         IN IF StartsWith(symbol_name, <<"module_">>)
            THEN ResolveModuleReference(reg, DropPrefix(symbol_name, 1))
            ELSE IF StartsWith(symbol_name, <<"template_">>)
            THEN ResolvePathReference(reg, "template:", DropPrefix(symbol_name, 1))
            ELSE IF StartsWith(symbol_name, <<"style_">>)
            THEN ResolvePathReference(reg, "style:", DropPrefix(symbol_name, 1))
            ELSE IF \/ StartsWith(symbol_name, <<"export_">>)
                    \/ StartsWith(symbol_name, <<"external_">>)
            THEN EmptyStr
            ELSE IF RegistryHas(reg, symbol_name)
            THEN RegistryGet(reg, symbol_name).id
            ELSE IF qual # 0 THEN reg[qual].entity.id
            ELSE EmptyStr

\* the loop body of _resolve_relationships for one relationship
ResolveRelationship(reg, rel) ==
    IF /\ StartsWith(rel.to_id, Unresolved)
       /\ ResolveSymbolReference(reg, rel.to_id) # EmptyStr
    THEN ParsedRelationship(rel.from_id, ResolveSymbolReference(reg, rel.to_id),
                            rel.relationship_type)
    ELSE rel

\* EntityExtractor._resolve_relationships
ResolveRelationships(reg, parse_results) ==
    [i \in 1..Len(parse_results) |->
       [parse_results[i] EXCEPT !.relationships =
          [j \in 1..Len(parse_results[i].relationships) |->
             ResolveRelationship(reg, parse_results[i].relationships[j])]]]

\* ------------------------------------------------------- schema tables
\* GraphSchema.NODE_TABLES and GraphSchema.RELATIONSHIP_TABLES: the keys, in
\* the order of the dictionaries
NodeTables ==
    <<"File", "Module", "Class", "Function", "Variable", "Import", "Method",
      "Interface", "Type", "Enum", "Export", "ArrayPattern", "Constructor", "Getter",
      "Setter", "Decorator", "AngularComponent", "AngularService", "AngularDirective",
      "AngularPipe", "AngularModule", "AngularInput", "AngularOutput", "ArrowFunction",
      "GeneratorFunction", "ExternalProperty", "ExternalFunction">>

RelationshipTables ==
    <<"FILE_CONTAINS_MODULE", "FILE_CONTAINS_CLASS", "FILE_CONTAINS_FUNCTION",
      "FILE_CONTAINS_VARIABLE", "FILE_CONTAINS_IMPORT", "MODULE_CONTAINS_CLASS",
      "MODULE_CONTAINS_FUNCTION", "MODULE_CONTAINS_VARIABLE",
      "CLASS_CONTAINS_FUNCTION", "CLASS_CONTAINS_VARIABLE",
      "FUNCTION_CONTAINS_VARIABLE", "FUNCTION_CONTAINS_FUNCTION",
      "CLASS_CONTAINS_CLASS", "CALLS", "IMPORTS", "INHERITS", "USES", "DECORATES",
      "EXPORTS", "ACCESSES", "IMPLEMENTS", "EXTENDS", "USES_TEMPLATE", "USES_STYLES",
      "FILE_CONTAINS_METHOD", "FILE_CONTAINS_INTERFACE", "FILE_CONTAINS_TYPE",
      "FILE_CONTAINS_ENUM", "FILE_CONTAINS_EXPORT", "FILE_CONTAINS_ARRAYPATTERN",
      "FILE_CONTAINS_CONSTRUCTOR", "FILE_CONTAINS_GETTER", "FILE_CONTAINS_SETTER",
      "FILE_CONTAINS_DECORATOR", "FILE_CONTAINS_ANGULARCOMPONENT",
      "FILE_CONTAINS_ANGULARSERVICE", "FILE_CONTAINS_ANGULARDIRECTIVE",
      "FILE_CONTAINS_ANGULARPIPE", "FILE_CONTAINS_ANGULARMODULE",
      "FILE_CONTAINS_ANGULARINPUT", "FILE_CONTAINS_ANGULAROUTPUT",
      "FILE_CONTAINS_ARROWFUNCTION", "FILE_CONTAINS_GENERATORFUNCTION",
      "FILE_CONTAINS_EXTERNALPROPERTY", "FILE_CONTAINS_EXTERNALFUNCTION",
      "CLASS_CONTAINS_METHOD", "CLASS_CONTAINS_CONSTRUCTOR", "CLASS_CONTAINS_GETTER",
      "CLASS_CONTAINS_SETTER">>

\* validate_schema's expected_tables
ExpectedTables == Range(NodeTables) \cup Range(RelationshipTables)

\* ------------------------------------------------------------------- store
\* A stored node carries the properties the insert query writes; an absent
\* property reads as <<>>.  A store state is [nodes, edges, log, ok]; log
\* lists every query executed in the current run, in order, and ok is the
\* outcome of the last execute call.
NullNode == [id |-> EmptyStr, name |-> EmptyStr, type |-> "", path |-> EmptyStr,
             file_id |-> EmptyStr, hash |-> EmptyStr, is_async |-> FALSE]
NullEdge == ParsedRelationship(EmptyStr, EmptyStr, "")

\* EntityExtractor._create_entity_insert_query: CREATE (:<type> {props})
CreateEntityInsertQuery(entity) ==
    [op |-> "create_node", edge |-> NullEdge,
     node |-> [id |-> entity.id, name |-> entity.name, type |-> entity.type,
               path |-> IF entity.type = "File" THEN entity.file_path ELSE EmptyStr,
               file_id |-> IF entity.type = "File" THEN EmptyStr
                           ELSE entity.metadata.file_id,
               hash |-> IF entity.type = "File" THEN entity.metadata.hash
                        ELSE EmptyStr,
               is_async |-> entity.type = "Function" /\ entity.metadata.is_async]]

\* EntityExtractor._create_relationship_insert_query: None (here <<>>) for a
\* relationship with an unresolved endpoint, else MATCH both ends, CREATE edge
CreateRelationshipInsertQuery(rel) ==
    IF StartsWith(rel.from_id, Unresolved) \/ StartsWith(rel.to_id, Unresolved)
    THEN <<>>
    ELSE << [op |-> "create_edge", node |-> NullNode, edge |-> rel] >>

LogEntry(op, a, b, type, ok, applied) ==
    [op |-> op, a |-> a, b |-> b, type |-> type, ok |-> ok, applied |-> applied]

HasNode(nodes, id) == \E n \in nodes : n.id = id

\* DatabaseService.connect failing: the call returns None / False and the
\* query never reaches the store
ConnectFailed(st) ==
    [st EXCEPT !.log = Append(st.log, LogEntry("connect", EmptyStr, EmptyStr, "",
                                               FALSE, FALSE)),
               !.ok = FALSE]

\* DatabaseService.execute_query of one insert: CREATE of a node whose primary
\* key exists raises; MATCH .. CREATE of an edge creates one edge per matched
\* pair; a query that names a table the schema does not have raises.  st.up
\* tells whether the store can be connected to.
ExecInsert(st, q) ==
    IF ~st.up
    THEN ConnectFailed(
           [st EXCEPT !.log = Append(st.log,
              IF q.op = "create_node"
              THEN LogEntry("create_node", q.node.id, EmptyStr, q.node.type, FALSE, FALSE)
              ELSE LogEntry("create_edge", q.edge.from_id, q.edge.to_id,
                            q.edge.relationship_type, FALSE, FALSE))])
    ELSE IF q.op = "create_node"
    THEN LET dup == \/ q.node.type \notin Range(NodeTables)
                    \/ \E n \in st.nodes : n.id = q.node.id /\ n.type = q.node.type
         IN [nodes |-> IF dup THEN st.nodes ELSE st.nodes \cup {q.node},
             edges |-> st.edges,
             log |-> Append(st.log, LogEntry("create_node", q.node.id, EmptyStr,
                                             q.node.type, ~dup, ~dup)),
             ok |-> ~dup, up |-> st.up]
    ELSE LET table == q.edge.relationship_type \in Range(RelationshipTables)
             both == /\ table
                     /\ HasNode(st.nodes, q.edge.from_id)
                     /\ HasNode(st.nodes, q.edge.to_id)
         IN [nodes |-> st.nodes,
             edges |-> IF both THEN st.edges \cup {q.edge} ELSE st.edges,
             log |-> Append(st.log, LogEntry("create_edge", q.edge.from_id, q.edge.to_id,
                                             q.edge.relationship_type, table, both)),
             ok |-> table, up |-> st.up]

\* DatabaseService.execute_batch: run the queries in order, stop at the
\* first one that raises and report False
RECURSIVE ExecuteBatch(_, _)
ExecuteBatch(st, batch) ==
    IF ~st.up THEN ConnectFailed(st)
    ELSE IF batch = <<>> THEN [st EXCEPT !.ok = TRUE]
    ELSE LET r == ExecInsert(st, Head(batch))
         IN IF r.ok THEN ExecuteBatch(r, Tail(batch)) ELSE r

\* the "Try individual insertion for failed batch" loop
RECURSIVE ExecuteIndividually(_, _)
ExecuteIndividually(st, batch) ==
    IF batch = <<>> THEN st
    ELSE ExecuteIndividually(ExecInsert(st, Head(batch)), Tail(batch))

\* the batch loop without its row-by-row retry of a failed batch
RECURSIVE InsertInBatchesNoRetry(_, _)
InsertInBatchesNoRetry(st, queries) ==
    IF queries = <<>> THEN st
    ELSE LET n == IF Len(queries) < BatchSize THEN Len(queries) ELSE BatchSize
         IN InsertInBatchesNoRetry(ExecuteBatch(st, SubSeq(queries, 1, n)),
                                   SubSeq(queries, n + 1, Len(queries)))

\* one pass of "for i in range(0, len(queries), batch_size)"
RECURSIVE InsertInBatches(_, _)
InsertInBatches(st, queries) ==
    IF queries = <<>> THEN st
    ELSE LET n == IF Len(queries) < BatchSize THEN Len(queries) ELSE BatchSize
             batch == SubSeq(queries, 1, n)
             r == ExecuteBatch(st, batch)
             after == IF r.ok THEN r ELSE ExecuteIndividually(r, batch)
         IN InsertInBatches(after, SubSeq(queries, n + 1, Len(queries)))

\* a de-duplication that keeps the last occurrence of an ID
RECURSIVE UniqueEntitiesLastWins(_, _)
UniqueEntitiesLastWins(entities, seen) ==
    IF entities = <<>> THEN <<>>
    ELSE IF \E i \in 2..Len(entities) : entities[i].id = Head(entities).id
         THEN UniqueEntitiesLastWins(Tail(entities), seen)
         ELSE <<Head(entities)>> \o UniqueEntitiesLastWins(Tail(entities), seen)

\* "Deduplicate entities by ID before creating queries": first occurrence wins
RECURSIVE UniqueEntities(_, _)
UniqueEntities(entities, seen) ==
    IF entities = <<>> THEN <<>>
    ELSE IF Head(entities).id \in seen THEN UniqueEntities(Tail(entities), seen)
    ELSE <<Head(entities)>> \o UniqueEntities(Tail(entities), seen \cup {Head(entities).id})

AllEntities(parse_results) ==
    Flatten([i \in 1..Len(parse_results) |-> parse_results[i].entities])
AllRelationships(parse_results) ==
    Flatten([i \in 1..Len(parse_results) |-> parse_results[i].relationships])

EntityQueries(parse_results) ==
    LET u == UniqueEntities(AllEntities(parse_results), {})
    IN [i \in 1..Len(u) |-> CreateEntityInsertQuery(u[i])]

RelationshipQueries(parse_results) ==
    LET rels == AllRelationships(parse_results)
    IN Flatten([i \in 1..Len(rels) |-> CreateRelationshipInsertQuery(rels[i])])

\* a store pass that submits the relationship batches first
StoreResultsEdgesFirst(st, parse_results) ==
    InsertInBatches(InsertInBatches(st, RelationshipQueries(parse_results)),
                    EntityQueries(parse_results))

\* EntityExtractor._store_results: entity batches, then relationship batches
StoreResults(st, parse_results) ==
    InsertInBatches(InsertInBatches(st, EntityQueries(parse_results)),
                    RelationshipQueries(parse_results))

RECURSIVE SetToSeq(_)
SetToSeq(S) ==
    IF S = {} THEN <<>>
    ELSE LET x == CHOOSE y \in S : TRUE IN <<x>> \o SetToSeq(S \ {x})

NodeProperty(n, key) == IF key \in DOMAIN n THEN n[key] ELSE EmptyStr

\* MATCH (n {file_path: "<path>"}) RETURN n.id
EntitiesOfFileQuery(nodes, path) ==
    {n.id : n \in {m \in nodes : NodeProperty(m, "file_path") = path}}

RECURSIVE DeleteRelationships(_, _)
DeleteRelationships(st, ids) ==
    IF ids = <<>> THEN st
    ELSE LET gone == {e \in st.edges : e.from_id = Head(ids) \/ e.to_id = Head(ids)}
         IN DeleteRelationships(
              [st EXCEPT !.edges = st.edges \ gone,
                         !.log = Append(st.log, LogEntry("delete_rel", Head(ids), EmptyStr,
                                                         "", TRUE, gone # {}))],
              Tail(ids))

RECURSIVE DeleteEntities(_, _)
DeleteEntities(st, ids) ==
    IF ids = <<>> THEN st
    ELSE LET gone == {n \in st.nodes : n.id = Head(ids)}
         IN DeleteEntities(
              [st EXCEPT !.nodes = st.nodes \ gone,
                         !.log = Append(st.log, LogEntry("delete_node", Head(ids), EmptyStr,
                                                         "", TRUE, gone # {}))],
              Tail(ids))

\* a delete step that selects the File node by its path property and deletes
\* it without deleting its edges
RemoveFileNodesOnly(r, path) ==
    LET ids == IF r.st.up
               THEN SetToSeq({n.id : n \in {m \in r.st.nodes : NodeProperty(m, "path") = path}})
               ELSE <<>>
        sent == [r.st EXCEPT !.log = Append(r.st.log,
                     LogEntry("match_file_path", path, EmptyStr, "", r.st.up, FALSE))]
        asked == IF r.st.up THEN sent ELSE [ConnectFailed(sent) EXCEPT !.ok = TRUE]
    IN [st |-> DeleteEntities(asked, ids),
        file_hashes |-> [q \in DOMAIN r.file_hashes \ {path} |-> r.file_hashes[q]],
        entities_removed |-> r.entities_removed + Len(ids),
        relationships_removed |-> r.relationships_removed + Len(ids)]

\* the body of the loop of IncrementalUpdater._remove_files_from_graph for
\* one file; r is [st, file_hashes, entities_removed, relationships_removed]
RemoveFileFromGraph(r, path) ==
    LET ids == IF r.st.up THEN SetToSeq(EntitiesOfFileQuery(r.st.nodes, path)) ELSE <<>>
        sent == [r.st EXCEPT !.log = Append(r.st.log,
                     LogEntry("match_file_path", path, EmptyStr, "", r.st.up, FALSE))]
        asked == IF r.st.up THEN sent ELSE [ConnectFailed(sent) EXCEPT !.ok = TRUE]
    IN [st |-> DeleteEntities(DeleteRelationships(asked, ids), ids),
        file_hashes |-> [q \in DOMAIN r.file_hashes \ {path} |-> r.file_hashes[q]],
        entities_removed |-> r.entities_removed + Len(ids),
        relationships_removed |-> r.relationships_removed + Len(ids)]

\* IncrementalUpdater._remove_files_from_graph
RECURSIVE RemoveFilesFromGraph(_, _)
RemoveFilesFromGraph(r, file_paths) ==
    IF file_paths = <<>> THEN r
    ELSE RemoveFilesFromGraph(RemoveFileFromGraph(r, Head(file_paths)), Tail(file_paths))

\* ------------------------------------------------------------ the schema
\* tables that a query of another client of the store can create
ForeignTables == {"Scratch"}

NoValidation ==
    [done |-> FALSE, valid |-> FALSE, missing_tables |-> {}, unexpected_tables |-> {},
     errors |-> {}]

\* GraphSchema.create_schema: CREATE ... IF NOT EXISTS for every node table,
\* then every relationship table; the first query that returns None ends it
\* with False. failAt is the position of that query, 0 when none fails.
CreateSchema(tables, failAt) ==
    LET all  == NodeTables \o RelationshipTables
        done == IF failAt = 0 THEN Len(all) ELSE failAt - 1
    IN [tables |-> tables \cup {all[i] : i \in 1..done}, ok |-> failAt = 0]

\* GraphSchema.drop_schema: DROP TABLE IF EXISTS for every known table; the
\* results of the queries are not looked at; with the store unreachable every
\* query returns None and nothing is dropped
DropSchema(tables, up) ==
    [tables |-> IF up THEN tables \ ExpectedTables ELSE tables, ok |-> TRUE]

\* GraphSchema.reset_schema
ResetSchema(tables, up, failAt) ==
    LET d == DropSchema(tables, up)
    IN IF ~d.ok THEN d ELSE CreateSchema(d.tables, failAt)

\* validate_schema that does not look for unexpected tables
ValidateSchemaMissingOnly(tables, up) ==
    IF ~up
    THEN [done |-> TRUE, valid |-> FALSE, missing_tables |-> {}, unexpected_tables |-> {},
          errors |-> {"Could not retrieve tables from database."}]
    ELSE [done |-> TRUE, valid |-> ExpectedTables \ tables = {},
          missing_tables |-> ExpectedTables \ tables, unexpected_tables |-> {},
          errors |-> {}]

\* GraphSchema.validate_schema
ValidateSchema(tables, up) ==
    IF ~up
    THEN [done |-> TRUE, valid |-> FALSE, missing_tables |-> {}, unexpected_tables |-> {},
          errors |-> {"Could not retrieve tables from database."}]
    ELSE LET missing    == ExpectedTables \ tables
             unexpected == tables \ ExpectedTables
         IN [done |-> TRUE, valid |-> missing = {} /\ unexpected = {},
             missing_tables |-> missing, unexpected_tables |-> unexpected,
             errors |-> {}]

\* the store after initialize() and create_schema(): what every run needs
SchemaCreated ==
    [tables |-> ExpectedTables, validation |-> NoValidation, after |-> "create_ok"]

\* ------------------------------------------------------------------- state
VARIABLES
    fs,               \* path -> Absent | Unreadable | content
    nodes,            \* store: persisted nodes
    edges,            \* store: persisted edges
    file_hashes,      \* IncrementalUpdater.file_hashes (the ledger)
    symbol_registry,  \* EntityExtractor.symbol_registry
    results,          \* what the last run returned to its caller
    parse_results,    \* the resolved parse results of the last run
    oplog,            \* store queries executed by the last run, in order
    since,            \* what happened since the last run: "changed" (disk),
                      \* "same" (an incremental run, nothing since), "raised" (one
                      \* in which a parse call raised), "reloaded" ("same", then a
                      \* new process), "full", "new"
    runs,             \* number of runs so far
    schema,           \* store: the tables that exist, and what the last
                      \* validate_schema returned
    call,             \* the last direct call of a function: its name, its
                      \* argument and what it returned
    pool              \* a full extraction in progress: where the orchestrator
                      \* is, the state of every parse task, the results
                      \* collected so far and the thread of the last step

vars == <<fs, nodes, edges, file_hashes, symbol_registry, results, parse_results,
          oplog, since, runs, schema, call, pool>>

NoCall == [fn |-> "none", arg |-> <<>>, ret |-> "none"]

NoPool == [pc |-> "idle", futures |-> <<>>, collected |-> {}, results |-> <<>>,
           thread |-> "none"]

NoResults ==
    [kind |-> "none", prev |-> "none", files_to_parse |-> <<>>, crashed |-> {},
     added |-> <<>>, modified |-> <<>>, removed |-> <<>>, unchanged |-> <<>>,
     total_files |-> 0, files_added |-> 0, files_modified |-> 0, files_removed |-> 0,
     files_unchanged |-> 0, entities_removed |-> 0, relationships_removed |-> 0,
     errors |-> <<>>]

Orderings(S) ==
    {s \in [1..Cardinality(S) -> S] : \A i, j \in 1..Cardinality(S) : s[i] = s[j] => i = j}

\* BaseParser._find_parseable_files for every parser, in PARSER_REGISTRY
\* order; order is the order in which os.walk lists the directory
FindParseableFiles(parser, order) ==
    SelectSeq(order, LAMBDA p : /\ fs[p] # Absent
                                /\ GetFileType(p) # "none"
                                /\ GetFileType(p) \in SupportedFileTypes(parser))
Walk(order) == Flatten([i \in 1..Len(Parsers) |-> FindParseableFiles(Parsers[i], order)])

OnDisk == {p \in DOMAIN fs : fs[p] # Absent}

\* IncrementalUpdater.__init__ on an empty store
Init ==
    /\ fs = [p \in AllPaths |-> Absent]
    /\ nodes = {}
    /\ edges = {}
    /\ file_hashes = <<>>
    /\ symbol_registry = <<>>
    /\ results = NoResults
    /\ parse_results = <<>>
    /\ oplog = <<>>
    /\ since = "none"
    /\ runs = 0
    /\ schema = SchemaCreated
    /\ call = NoCall
    /\ pool = NoPool

\* ------------------------------------------------------ the disk changes
Forget ==
    /\ results' = NoResults
    /\ parse_results' = <<>>
    /\ oplog' = <<>>
    /\ since' = "changed"

WriteFile(p, c) ==
    /\ fs[p] # c
    /\ fs' = [fs EXCEPT ![p] = c]
    /\ Forget
    /\ UNCHANGED <<nodes, edges, file_hashes, symbol_registry, runs, schema, call, pool>>

RemoveFile(p) ==
    /\ fs[p] # Absent
    /\ fs' = [fs EXCEPT ![p] = Absent]
    /\ Forget
    /\ UNCHANGED <<nodes, edges, file_hashes, symbol_registry, runs, schema, call, pool>>

MakeUnreadable(p) ==
    /\ fs[p] \in AllContents
    /\ fs' = [fs EXCEPT ![p] = Unreadable]
    /\ Forget
    /\ UNCHANGED <<nodes, edges, file_hashes, symbol_registry, runs, schema, call, pool>>

\* ---------------------------------------------------- incremental update
\* IncrementalUpdater._detect_changes
DetectChanges(order, rorder) ==
    LET walked == Walk(order)
    IN [added |-> SelectSeq(walked, LAMBDA p : p \notin DOMAIN file_hashes),
        modified |-> SelectSeq(walked, LAMBDA p :
                       /\ p \in DOMAIN file_hashes
                       /\ file_hashes[p] # CalculateFileHash(fs[p])),
        unchanged |-> SelectSeq(walked, LAMBDA p :
                       /\ p \in DOMAIN file_hashes
                       /\ file_hashes[p] = CalculateFileHash(fs[p])),
        removed |-> SelectSeq(rorder, LAMBDA p : p \notin Range(walked)),
        total_files |-> Cardinality(Range(walked))]

\* the "Parse and add new entities" loop of _process_changes;
\* acc is [parse_results, file_hashes, errors]
RECURSIVE ParseChangedNoTry(_, _, _)
RECURSIVE ParseChanged(_, _, _)
\* the loop without its try/except: it ends at the first parse call that raises
ParseChangedNoTry(acc, files, crash) ==
    IF files = <<>> THEN acc
    ELSE LET p == Head(files)
             Recorded(result) ==
               [acc EXCEPT
                  !.parse_results = Append(@, result),
                  !.file_hashes =
                     IF result.file_hash # EmptyStr
                     THEN [q \in DOMAIN @ \cup {p} |->
                             IF q = p THEN result.file_hash ELSE @[q]]
                     ELSE @]
         IN IF GetParserForFile(p) = "none"
            THEN ParseChangedNoTry(acc, Tail(files), crash)
            ELSE IF p \in crash
            THEN [acc EXCEPT !.errors = Append(@, <<"Parse error in">> \o p)]
            ELSE ParseChangedNoTry(Recorded(ParseFile(p, fs[p], FALSE)), Tail(files),
                                   crash)

ParseChanged(acc, files, crash) ==
    IF files = <<>> THEN acc
    ELSE LET p == Head(files)
             Recorded(result) ==
               [acc EXCEPT
                  !.parse_results = Append(@, result),
                  !.file_hashes =
                     IF result.file_hash # EmptyStr
                     THEN [q \in DOMAIN @ \cup {p} |->
                             IF q = p THEN result.file_hash ELSE @[q]]
                     ELSE @]
         IN ParseChanged(IF GetParserForFile(p) = "none" THEN acc
                         ELSE IF p \in crash
                         THEN [acc EXCEPT !.errors = Append(@, <<"Parse error in">> \o p)]
                         ELSE Recorded(ParseFile(p, fs[p], FALSE)),
                         Tail(files), crash)

\* a _process_changes that stores the reparse first and only then removes the
\* old data of the modified files
ProcessChangesInsertFirst(changes, crash, up) ==
    LET r0 == [st |-> [nodes |-> nodes, edges |-> edges, log |-> <<>>, ok |-> TRUE,
                       up |-> up],
               file_hashes |-> file_hashes,
               entities_removed |-> 0, relationships_removed |-> 0]
        files_to_parse == changes.added \o changes.modified
        Removed(r2, parsed, resolved, st) ==
          [RemoveFilesFromGraph([r2 EXCEPT !.st = st], changes.modified)
             EXCEPT !.file_hashes = parsed.file_hashes]
             @@ [parse_results |-> resolved, errors |-> parsed.errors]
        Stored(r2, parsed, resolved) ==
          Removed(r2, parsed, resolved,
                  IF parsed.parse_results # <<>> THEN StoreResults(r2.st, resolved)
                  ELSE r2.st)
        Resolved(r2, parsed) ==
          Stored(r2, parsed, ResolveRelationships(symbol_registry, parsed.parse_results))
        Parsed(r2) ==
          Resolved(r2, ParseChanged([parse_results |-> <<>>,
                                     file_hashes |-> r2.file_hashes,
                                     errors |-> <<>>], files_to_parse, crash))
    IN Parsed(RemoveFilesFromGraph(r0, changes.removed))

\* IncrementalUpdater._process_changes; returns the new store state, ledger,
\* resolved results and the counters
ProcessChanges(changes, crash, up) ==
    LET r0 == [st |-> [nodes |-> nodes, edges |-> edges, log |-> <<>>, ok |-> TRUE,
                       up |-> up],
               file_hashes |-> file_hashes,
               entities_removed |-> 0, relationships_removed |-> 0]
        files_to_parse == changes.added \o changes.modified
        \* "Resolve relationships and store" and the counters
        Stored(r2, parsed, resolved) ==
          [st |-> IF parsed.parse_results # <<>> THEN StoreResults(r2.st, resolved)
                  ELSE r2.st,
           file_hashes |-> parsed.file_hashes,
           parse_results |-> resolved,
           errors |-> parsed.errors,
           entities_removed |-> r2.entities_removed,
           relationships_removed |-> r2.relationships_removed]
        Resolved(r2, parsed) ==
          Stored(r2, parsed, ResolveRelationships(symbol_registry, parsed.parse_results))
        \* "Parse and add new entities"
        Parsed(r2) ==
          Resolved(r2, ParseChanged([parse_results |-> <<>>,
                                     file_hashes |-> r2.file_hashes,
                                     errors |-> <<>>], files_to_parse, crash))
    \* "Remove entities from deleted files", then from the modified ones
    IN Parsed(RemoveFilesFromGraph(RemoveFilesFromGraph(r0, changes.removed),
                                   changes.modified))

\* IncrementalUpdater.update_graph
UpdateGraph(order, rorder, crash, up) ==
    \E changes \in {DetectChanges(order, rorder)} :
    \E done \in {ProcessChanges(changes, crash, up)} :
    \E base \in {[NoResults EXCEPT
                   !.kind = "incremental", !.prev = since,
                   !.added = changes.added, !.modified = changes.modified,
                   !.removed = changes.removed, !.unchanged = changes.unchanged,
                   !.total_files = changes.total_files]} :
    LET work == changes.added # <<>> \/ changes.modified # <<>> \/ changes.removed # <<>>
    IN /\ runs < MaxRuns
       /\ runs' = runs + 1
       /\ since' = IF crash = {} THEN "same" ELSE "raised"
       /\ IF work
          THEN /\ nodes' = done.st.nodes
               /\ edges' = done.st.edges
               /\ oplog' = done.st.log
               /\ file_hashes' = done.file_hashes
               /\ parse_results' = done.parse_results
               /\ results' = [base EXCEPT
                     !.files_to_parse = changes.added \o changes.modified,
                     !.crashed = crash,
                     !.files_added = Len(changes.added),
                     !.files_modified = Len(changes.modified),
                     !.files_removed = Len(changes.removed),
                     !.files_unchanged = Len(changes.unchanged),
                     !.entities_removed = done.entities_removed,
                     !.relationships_removed = done.relationships_removed,
                     !.errors = done.errors]
          ELSE /\ results' = base
               /\ parse_results' = <<>>
               /\ oplog' = <<>>
               /\ UNCHANGED <<nodes, edges, file_hashes>>
       /\ UNCHANGED <<fs, symbol_registry, schema, call, pool>>

\* at most one parse call raises in a run
CrashChoices(files) == {{}} \cup {{p} : p \in files}

IncrementalUpdate ==
    \E order \in Orderings(OnDisk) :
      \E rorder \in Orderings(DOMAIN file_hashes \ Range(Walk(order))) :
        \E changes \in {DetectChanges(order, rorder)} :
          \E crash \in CrashChoices(Range(changes.added \o changes.modified)) :
            UpdateGraph(order, rorder, crash, TRUE)

\* the same run while DatabaseService.connect fails; a run that finds no
\* change sends nothing to the store and does not find out
IncrementalUpdateStoreDown ==
    \E order \in Orderings(OnDisk) :
      \E rorder \in Orderings(DOMAIN file_hashes \ Range(Walk(order))) :
        \E changes \in {DetectChanges(order, rorder)} :
          /\ changes.added # <<>> \/ changes.modified # <<>> \/ changes.removed # <<>>
          /\ UpdateGraph(order, rorder, {}, FALSE)

\* ------------------------------------------------------------ full update
\* EntityExtractor._extract_entities_parallel: one result per file, in the
\* order the workers complete; a worker that raises yields an error result
ExtractEntitiesParallel(completion, crash) ==
    LET files == SelectSeq(completion, LAMBDA p : GetParserForFile(p) # "none")
    IN [i \in 1..Len(files) |->
          IF files[i] \in crash
          THEN ParseResult(<<>>, <<>>, EmptyStr, files[i], << <<"raised in">> \o files[i] >>)
          ELSE ParseFile(files[i], fs[files[i]], FALSE)]

\* the ledger refresh of force_full_update
RECURSIVE HashesOf(_, _)
HashesOf(h, rs) ==
    IF rs = <<>> THEN h
    ELSE HashesOf(IF Head(rs).file_hash # EmptyStr
                  THEN [q \in DOMAIN h \cup {Head(rs).file_path} |->
                          IF q = Head(rs).file_path THEN Head(rs).file_hash ELSE h[q]]
                  ELSE h,
                  Tail(rs))

\* IncrementalUpdater.force_full_update, with EntityExtractor.
\* extract_from_directory and _two_pass_extraction inlined.  completion is
\* the order in which the parse workers complete.
ForceFullUpdate(completion, crash, up) ==
    LET asked == [nodes |-> IF up THEN {} ELSE nodes,
                  edges |-> IF up THEN {} ELSE edges,
                  ok |-> TRUE, up |-> up,
                  log |-> <<LogEntry("clear_graph", EmptyStr, EmptyStr, "", up,
                                     up /\ nodes # {})>>]
        empty == completion = <<>>
    IN
    \E cleared \in {IF up THEN asked ELSE [ConnectFailed(asked) EXCEPT !.ok = TRUE]} :
    \E pass1 \in {ExtractEntitiesParallel(completion, crash)} :
    \E registry \in {RegisterAll(symbol_registry, AllEntities(pass1))} :
    \E pass2 \in {ResolveRelationships(registry, pass1)} :
    \E stored \in {StoreResults(cleared, pass2)} :
    \E failed \in {SelectSeq(pass2, LAMBDA r : r.errors # <<>>)} :
    \E processed \in {SelectSeq(pass2, LAMBDA r : r.errors = <<>>)} :
       /\ runs < MaxRuns
       /\ runs' = runs + 1
       /\ since' = "full"
       /\ nodes' = IF empty THEN cleared.nodes ELSE stored.nodes
       /\ edges' = IF empty THEN cleared.edges ELSE stored.edges
       /\ oplog' = IF empty THEN cleared.log ELSE stored.log
       /\ symbol_registry' = IF empty THEN symbol_registry ELSE registry
       /\ parse_results' = IF empty THEN <<>> ELSE pass2
       /\ file_hashes' = IF empty THEN <<>> ELSE HashesOf(<<>>, pass2)
       /\ results' =
            IF empty
            THEN [NoResults EXCEPT !.kind = "full", !.prev = since,
                    !.errors = << <<"max_workers must be greater than 0">> >>]
            ELSE [NoResults EXCEPT !.kind = "full", !.prev = since,
                    !.files_to_parse = completion, !.crashed = crash,
                    !.total_files = Len(pass2),
                    !.files_added = Len(processed),
                    !.errors = Flatten([i \in 1..Len(failed) |-> failed[i].errors])]
       /\ UNCHANGED <<fs, schema, call, pool>>

FullUpdate ==
    \E completion \in Orderings(Range(Walk(SetToSeq(OnDisk)))) :
      \E crash \in CrashChoices(Range(completion)) :
        ForceFullUpdate(completion, crash, TRUE)

FullUpdateStoreDown ==
    \E completion \in Orderings(Range(Walk(SetToSeq(OnDisk)))) :
      ForceFullUpdate(completion, {}, FALSE)

\* ------------------------------------------------------------ new process
\* IncrementalUpdater._load_file_hashes: one entry per File node that has
\* both a path and a hash
LoadedHashes ==
    LET files == {n \in nodes : n.type = "File" /\ n.path # EmptyStr /\ n.hash # EmptyStr}
        paths == {n.path : n \in files}
    IN {h \in [paths -> {n.hash : n \in files}] :
          \A p \in paths : \E n \in files : n.path = p /\ n.hash = h[p]}

\* IncrementalUpdater.__init__: a fresh extractor and the ledger reloaded
\* from the store (the CLI builds one updater per command)
NewUpdater ==
    /\ since \notin {"new", "reloaded"}
    /\ since' = IF since = "same" THEN "reloaded" ELSE "new"
    /\ \E h \in LoadedHashes : file_hashes' = h
    /\ symbol_registry' = <<>>
    /\ results' = NoResults
    /\ parse_results' = <<>>
    /\ oplog' = <<>>
    /\ UNCHANGED <<fs, nodes, edges, runs, schema, call, pool>>

Next ==
    \/ \E p \in TsPaths, c \in Contents : WriteFile(p, c)
    \/ \E p \in TsPaths : RemoveFile(p)
    \/ \E p \in TsPaths : MakeUnreadable(p)
    \/ IncrementalUpdate
    \/ FullUpdate
    \/ NewUpdater

Spec == Init /\ [][Next]_vars

\* ------------------------------------------------ runs with the store down
NextStore ==
    \/ \E p \in TsPaths, c \in Contents : WriteFile(p, c)
    \/ IncrementalUpdate
    \/ FullUpdate
    \/ IncrementalUpdateStoreDown
    \/ FullUpdateStoreDown

SpecStore == Init /\ [][NextStore]_vars

\* ------------------------------------------------- parsers called directly
\* parser.parse_file(path) on any file of any disk (as the parser tests do);
\* the result lands in parse_results, nothing else changes
InitParse ==
    /\ fs \in [AllPaths -> {Absent, Unreadable} \cup AllContents \cup PyContents]
    /\ \A p \in TsPaths : fs[p] \notin PyContents
    /\ nodes = {}
    /\ edges = {}
    /\ file_hashes = <<>>
    /\ symbol_registry = <<>>
    /\ results = NoResults
    /\ parse_results = <<>>
    /\ oplog = <<>>
    /\ since = "none"
    /\ runs = 0
    /\ schema = SchemaCreated
    /\ call = NoCall
    /\ pool = NoPool

ParseOne(p, treeNone) ==
    /\ fs[p] # Absent
    /\ treeNone => fs[p] \in BrokenContents
    /\ parse_results' = <<ParseFile(p, fs[p], treeNone)>>
    /\ UNCHANGED <<fs, nodes, edges, file_hashes, symbol_registry, results, oplog,
                   since, runs, schema, call, pool>>

NextParse == \E p \in AllPaths, treeNone \in BOOLEAN : ParseOne(p, treeNone)

SpecParse == InitParse /\ [][NextParse]_vars

\* ------------------------------------------------------ the schema manager
\* DatabaseService.initialize on a new database directory: no tables
InitSchema ==
    /\ fs = [p \in AllPaths |-> Absent]
    /\ nodes = {}
    /\ edges = {}
    /\ file_hashes = <<>>
    /\ symbol_registry = <<>>
    /\ results = NoResults
    /\ parse_results = <<>>
    /\ oplog = <<>>
    /\ since = "none"
    /\ runs = 0
    /\ schema = [tables |-> {}, validation |-> NoValidation, after |-> "init"]
    /\ call = NoCall
    /\ pool = NoPool

SchemaFrame ==
    UNCHANGED <<fs, nodes, edges, file_hashes, symbol_registry, results, parse_results,
                oplog, since, runs, call, pool>>

SchemaCreate(failAt) ==
    LET r == CreateSchema(schema.tables, failAt)
    IN /\ schema' = [tables |-> r.tables, validation |-> NoValidation,
                     after |-> IF r.ok THEN "create_ok" ELSE "create_failed"]
       /\ SchemaFrame

SchemaDrop(up) ==
    /\ schema.tables # {}
    /\ schema' = [tables |-> DropSchema(schema.tables, up).tables,
                  validation |-> NoValidation, after |-> "drop"]
    /\ SchemaFrame

SchemaReset(up, failAt) ==
    LET r == ResetSchema(schema.tables, up, failAt)
    IN /\ schema' = [tables |-> r.tables, validation |-> NoValidation,
                     after |-> IF r.ok THEN "reset_ok" ELSE "reset_failed"]
       /\ SchemaFrame

\* another client's CREATE NODE TABLE through DatabaseService.execute_query
SchemaForeign(t) ==
    /\ t \notin schema.tables
    /\ schema' = [tables |-> schema.tables \cup {t}, validation |-> NoValidation,
                  after |-> "foreign"]
    /\ SchemaFrame

SchemaValidate(up) ==
    /\ ~schema.validation.done
    /\ schema' = [schema EXCEPT !.validation = ValidateSchema(schema.tables, up)]
    /\ SchemaFrame

NextSchema ==
    \/ \E failAt \in 0..(Len(NodeTables) + Len(RelationshipTables)) : SchemaCreate(failAt)
    \/ \E up \in BOOLEAN : SchemaDrop(up)
    \/ \E up \in BOOLEAN, failAt \in 0..(Len(NodeTables) + Len(RelationshipTables)) :
         SchemaReset(up, failAt)
    \/ \E t \in ForeignTables : SchemaForeign(t)
    \/ \E up \in BOOLEAN : SchemaValidate(up)

SpecSchema == InitSchema /\ [][NextSchema]_vars

\* ---------------------------------------------- the classifier called directly
InitClassify ==
    /\ fs = [p \in AllPaths |-> Absent]
    /\ nodes = {}
    /\ edges = {}
    /\ file_hashes = <<>>
    /\ symbol_registry = <<>>
    /\ results = NoResults
    /\ parse_results = <<>>
    /\ oplog = <<>>
    /\ since = "none"
    /\ runs = 0
    /\ schema = SchemaCreated
    /\ call = NoCall
    /\ pool = NoPool

\* get_file_type(name), once in a behaviour: the function keeps no state
Classify(name) ==
    /\ call = NoCall
    /\ call' = [fn |-> "get_file_type", arg |-> name, ret |-> GetFileTypeOfName(name)]
    /\ UNCHANGED <<fs, nodes, edges, file_hashes, symbol_registry, results,
                   parse_results, oplog, since, runs, schema, pool>>

NextClassify == \E name \in FileNames : Classify(name)

SpecClassify == InitClassify /\ [][NextClassify]_vars

\* ------------------------------------------- runs over files that repeat an ID
\* a directory that does not change, in which a file may declare f twice
InitDedup ==
    /\ fs \in [AllPaths -> {Absent, "c1"} \cup DupContents]
    /\ \A p \in PyPaths : fs[p] = Absent
    /\ nodes = {}
    /\ edges = {}
    /\ file_hashes = <<>>
    /\ symbol_registry = <<>>
    /\ results = NoResults
    /\ parse_results = <<>>
    /\ oplog = <<>>
    /\ since = "none"
    /\ runs = 0
    /\ schema = SchemaCreated
    /\ call = NoCall
    /\ pool = NoPool

NextDedup ==
    \/ IncrementalUpdate
    \/ FullUpdate

SpecDedup == InitDedup /\ [][NextDedup]_vars

\* ------------------------------------------- the registry called directly
MaxRegistered == 3

\* entities that parsers produce and that share the name m: two TypeScript
\* functions, two module-level Python functions, a method of class K, the
\* module m itself; and the class K
RegPool ==
    {TsCreateEntityFromNode(PathOf("a", ".ts"), FunctionStmt(<<"m">>, 1, 1, <<>>)),
     TsCreateEntityFromNode(PathOf("b", ".ts"), FunctionStmt(<<"m">>, 1, 1, <<>>)),
     PyStmtEntity(PathOf("m", ".py"), FunctionStmt(<<"m">>, 1, 1, <<>>)),
     PyStmtEntity(PathOf("m", ".py"), FunctionStmt(<<"m">>, 5, 5, <<>>)),
     PyStmtEntity(PathOf("m", ".py"),
                  Within(FunctionStmt(<<"m">>, 2, 3, <<>>), Enclosing(<<"K">>, 1),
                         NoEnclosing)),
     PyModuleEntity(PathOf("m", ".py"), "c4"),
     PyStmtEntity(PathOf("m", ".py"), ClassStmt(<<"K">>, 1, 3))}

InitRegister ==
    /\ fs = [p \in AllPaths |-> Absent]
    /\ nodes = {}
    /\ edges = {}
    /\ file_hashes = <<>>
    /\ symbol_registry = <<>>
    /\ results = NoResults
    /\ parse_results = <<>>
    /\ oplog = <<>>
    /\ since = "none"
    /\ runs = 0
    /\ schema = SchemaCreated
    /\ call = NoCall
    /\ pool = NoPool

\* extractor._register_symbol(entity); call.arg keeps every entity registered
\* so far with the keys it was registered under
Register(entity) ==
    /\ Len(call.arg) < MaxRegistered
    /\ symbol_registry' = RegisterSymbol(symbol_registry, entity)
    /\ call' = [fn |-> "_register_symbol",
                arg |-> Append(call.arg, [entity |-> entity,
                                          keys |-> SymbolKeys(symbol_registry, entity)]),
                ret |-> "none"]
    /\ UNCHANGED <<fs, nodes, edges, file_hashes, results, parse_results, oplog, since,
                   runs, schema, pool>>

NextRegister == \E entity \in RegPool : Register(entity)

SpecRegister == InitRegister /\ [][NextRegister]_vars

\* ------------------------------------- runs over a tree of several languages
\* a directory that does not change, holding some of a.ts, x.css, y.css, m.py
TreePaths == {PathOf("a", ".ts"), PathOf("x", ".css"), PathOf("y", ".css")} \cup PyPaths

InitTree ==
    /\ fs \in [TreePaths -> {Absent, "c2"} \cup CssContents \cup PyContents]
    /\ \A p \in TreePaths :
          fs[p] \in {Absent} \cup (CASE PathSuffix(p) = ".css" -> CssContents
                                     [] PathSuffix(p) = ".py" -> PyContents
                                     [] OTHER -> {"c2"})
    /\ nodes = {}
    /\ edges = {}
    /\ file_hashes = <<>>
    /\ symbol_registry = <<>>
    /\ results = NoResults
    /\ parse_results = <<>>
    /\ oplog = <<>>
    /\ since = "none"
    /\ runs = 0
    /\ schema = SchemaCreated
    /\ call = NoCall
    /\ pool = NoPool

NextTree ==
    \/ IncrementalUpdate
    \/ FullUpdate

SpecTree == InitTree /\ [][NextTree]_vars

\* ------------------------------------- the two passes over given files
\* a directory that does not change, holding some of a.ts, b.ts and m.py
InitResolve ==
    /\ fs \in [AllPaths -> {Absent} \cup Contents \cup CallContents]
    /\ \A p \in AllPaths :
          fs[p] \in {Absent} \cup (IF p \in PyPaths THEN CallContents ELSE Contents)
    /\ nodes = {}
    /\ edges = {}
    /\ file_hashes = <<>>
    /\ symbol_registry = <<>>
    /\ results = NoResults
    /\ parse_results = <<>>
    /\ oplog = <<>>
    /\ since = "none"
    /\ runs = 0
    /\ schema = SchemaCreated
    /\ call = NoCall
    /\ pool = NoPool

\* _extract_entities_parallel(file_paths) on the files of the directory that
\* some parser accepts, then the loop that registers every entity and
\* _resolve_relationships, as _two_pass_extraction chains them
ResolveFiles(completion) ==
    \E pass1 \in {ExtractEntitiesParallel(completion, {})} :
    \E registry \in {RegisterAll(symbol_registry, AllEntities(pass1))} :
       /\ call.fn = "none"
       /\ completion # <<>>
       /\ symbol_registry' = registry
       /\ parse_results' = ResolveRelationships(registry, pass1)
       /\ call' = [fn |-> "_resolve_relationships", arg |-> completion, ret |-> "none"]
       /\ UNCHANGED <<fs, nodes, edges, file_hashes, results, oplog, since, runs,
                      schema, pool>>

NextResolve ==
    \E completion \in Orderings({p \in OnDisk : GetParserForFile(p) # "none"}) :
      ResolveFiles(completion)

SpecResolve == InitResolve /\ [][NextResolve]_vars

\* ------------------------------------ a full extraction, task by task
\* EntityExtractor.extract_from_directory over a directory that does not
\* change, holding some of a.ts, b.ts and b.tsx, with an empty store and a
\* new extractor.  A parse task is queued, running in a pool thread,
\* returned or raised.
WorkerPaths == {PathOf("a", ".ts"), PathOf("b", ".ts"), PathOf("b", ".tsx")}

InitWorkers ==
    /\ fs \in [WorkerPaths -> {Absent, "c1", "c2"}]
    /\ nodes = {}
    /\ edges = {}
    /\ file_hashes = <<>>
    /\ symbol_registry = <<>>
    /\ results = NoResults
    /\ parse_results = <<>>
    /\ oplog = <<>>
    /\ since = "none"
    /\ runs = 0
    /\ schema = SchemaCreated
    /\ call = NoCall
    /\ pool = NoPool

\* max_workers = min(4, len(file_paths))
MaxWorkers(n) == IF n < 4 THEN n ELSE 4

Finished(futures) == {p \in DOMAIN futures : futures[p] \in {"returned", "raised"}}

\* a collect loop that ends as soon as one future has been collected
SomeCollected(futures, collected) == collected # {}

\* "for future in as_completed(future_to_file)" has run out of futures
AllCollected(futures, collected) == DOMAIN futures \subseteq collected

\* _two_pass_extraction up to the end of the submit loop; an empty file list
\* makes ThreadPoolExecutor raise, which extract_from_directory catches
SubmitTasks ==
    /\ pool.pc = "idle"
    /\ \E files \in {{p \in Range(Walk(SetToSeq(DOMAIN fs))) : GetParserForFile(p) # "none"}} :
         IF Range(Walk(SetToSeq(DOMAIN fs))) = {}
         THEN /\ pool' = [pool EXCEPT !.pc = "raised", !.thread = "main"]
              /\ results' = [NoResults EXCEPT !.kind = "full",
                               !.errors = << <<"max_workers must be greater than 0">> >>]
         ELSE /\ pool' = [pool EXCEPT !.pc = "collect", !.thread = "main",
                                      !.futures = [p \in files |-> "queued"]]
              /\ results' = results
    /\ UNCHANGED <<fs, nodes, edges, file_hashes, symbol_registry, parse_results, oplog,
                   since, runs, schema, call>>

WorkerFrame ==
    UNCHANGED <<fs, nodes, edges, file_hashes, symbol_registry, results, parse_results,
                oplog, since, runs, schema, call>>

\* a pool thread takes a queued task
WorkerStart(p) ==
    /\ p \in DOMAIN pool.futures
    /\ pool.futures[p] = "queued"
    /\ Cardinality({q \in DOMAIN pool.futures : pool.futures[q] = "running"})
          < MaxWorkers(Cardinality(DOMAIN pool.futures))
    /\ pool' = [pool EXCEPT !.futures[p] = "running", !.thread = "worker"]
    /\ WorkerFrame

\* parser.parse_file returns or raises in the pool thread
WorkerFinish(p, raised) ==
    /\ p \in DOMAIN pool.futures
    /\ pool.futures[p] = "running"
    /\ pool' = [pool EXCEPT !.futures[p] = IF raised THEN "raised" ELSE "returned",
                            !.thread = "worker"]
    /\ WorkerFrame

\* one iteration of the as_completed loop: the result of a finished future,
\* or the error result of one that raised
Collect(p) ==
    /\ pool.pc = "collect"
    /\ p \in Finished(pool.futures) \ pool.collected
    /\ pool' = [pool EXCEPT
                  !.collected = @ \cup {p},
                  !.results = @ \o ExtractEntitiesParallel(<<p>>,
                                     IF pool.futures[p] = "raised" THEN {p} ELSE {}),
                  !.thread = "main"]
    /\ WorkerFrame

\* the loop and the with block end; _extract_entities_parallel returns
LeavePool ==
    /\ pool.pc = "collect"
    /\ AllCollected(pool.futures, pool.collected)
    /\ pool' = [pool EXCEPT !.pc = "register", !.thread = "main"]
    /\ WorkerFrame

\* "Build symbol registry from all entities"
BuildRegistry ==
    /\ pool.pc = "register"
    /\ symbol_registry' = RegisterAll(symbol_registry, AllEntities(pool.results))
    /\ pool' = [pool EXCEPT !.pc = "resolve", !.thread = "main"]
    /\ UNCHANGED <<fs, nodes, edges, file_hashes, results, parse_results, oplog, since,
                   runs, schema, call>>

\* "Pass 2: Resolve relationships using symbol registry"
ResolvePass ==
    /\ pool.pc = "resolve"
    /\ parse_results' = ResolveRelationships(symbol_registry, pool.results)
    /\ pool' = [pool EXCEPT !.pc = "store", !.thread = "main"]
    /\ UNCHANGED <<fs, nodes, edges, file_hashes, symbol_registry, results, oplog, since,
                   runs, schema, call>>

\* _store_results and the statistics of extract_from_directory
StorePass ==
    /\ pool.pc = "store"
    /\ \E stored \in {StoreResults([nodes |-> nodes, edges |-> edges, log |-> <<>>,
                                     ok |-> TRUE, up |-> TRUE], parse_results)} :
       \E failed \in {SelectSeq(parse_results, LAMBDA r : r.errors # <<>>)} :
         /\ nodes' = stored.nodes
         /\ edges' = stored.edges
         /\ oplog' = stored.log
         /\ results' = [NoResults EXCEPT
                          !.kind = "full",
                          !.total_files = Len(parse_results),
                          !.files_added = Len(parse_results) - Len(failed),
                          !.errors = Flatten([i \in 1..Len(failed) |-> failed[i].errors])]
    /\ pool' = [pool EXCEPT !.pc = "done", !.thread = "main"]
    /\ UNCHANGED <<fs, file_hashes, symbol_registry, parse_results, since, runs, schema,
                   call>>

NextWorkers ==
    \/ SubmitTasks
    \/ \E p \in WorkerPaths : WorkerStart(p)
    \/ \E p \in WorkerPaths, raised \in BOOLEAN : WorkerFinish(p, raised)
    \/ \E p \in WorkerPaths : Collect(p)
    \/ LeavePool
    \/ BuildRegistry
    \/ ResolvePass
    \/ StorePass

SpecWorkers == InitWorkers /\ [][NextWorkers]_vars

\* ------------------------------------------------------------- properties
IsWrite(entry) == entry.op \in {"create_node", "create_edge", "delete_rel", "delete_node"}

RanIncremental == results.kind = "incremental"
Ran == results.kind \in {"incremental", "full"}

\* what pass 1 produced for the file of a result of the last run
Pass1(r) == ParseFile(r.file_path, fs[r.file_path], FALSE)

FileIdsOf(path) == {n.id : n \in {m \in nodes : m.type = "File" /\ m.path = path}}
OwnedBy(n, path) ==
    \/ n.type = "File" /\ n.path = path
    \/ n.file_id \in FileIdsOf(path)

\* C1: an incremental run that directly follows a completed incremental run
\* (in the same process or in the next one), with no change on disk in
\* between, classifies no file as added, modified or removed and executes no
\* insert or delete on the store.
C1_IncrementalIdempotence ==
    (RanIncremental /\ results.prev \in {"same", "reloaded"}) =>
        /\ results.added = <<>>
        /\ results.modified = <<>>
        /\ results.removed = <<>>
        /\ \A k \in 1..Len(oplog) : ~IsWrite(oplog[k])

\* C2: after an incremental run that classified F as removed, the store holds
\* no File node with path F, no node whose file_id is such a File, and no
\* edge incident to any of them.
C2_DeletionCompleteness ==
    RanIncremental =>
        \A p \in Range(results.removed) :
            /\ \A n \in nodes : ~OwnedBy(n, p)
            /\ \A e \in edges : \A n \in nodes :
                  OwnedBy(n, p) => e.from_id # n.id /\ e.to_id # n.id

\* C3: every edge insertion executed by a store pass names two persisted
\* nodes, and every persisted edge has both endpoints persisted.
C3_EndpointExistence ==
    /\ \A k \in 1..Len(oplog) :
          oplog[k].op = "create_edge" =>
              HasNode(nodes, oplog[k].a) /\ HasNode(nodes, oplog[k].b)
    /\ \A e \in edges : HasNode(nodes, e.from_id) /\ HasNode(nodes, e.to_id)

\* the second half of C3 on its own: persisted edges never dangle
PersistedEdgesHaveEndpoints ==
    \A e \in edges : HasNode(nodes, e.from_id) /\ HasNode(nodes, e.to_id)

\* C4: an edge whose placeholder target matches no registry entry leaves the
\* resolver pointing at an external stub that was added to the same result,
\* and is persisted.
C4_UnmatchedGetsStub ==
    Ran =>
      \A i \in 1..Len(parse_results) :
        \A j \in 1..Len(parse_results[i].relationships) :
          LET r == parse_results[i]
              rel == r.relationships[j]
              orig == Pass1(r).relationships[j]
          IN (/\ StartsWith(orig.to_id, Unresolved)
              /\ ResolveSymbolReference(symbol_registry, orig.to_id) = EmptyStr)
             => /\ ~StartsWith(rel.to_id, Unresolved)
                /\ \E x \in 1..Len(r.entities) : r.entities[x].id = rel.to_id
                /\ rel \in edges

\* C5: after an incremental run that classified F as modified, the nodes the
\* store attributes to F are exactly the nodes of F's new parse, and every
\* edge leaving one of them is an edge of the new parse.
C5_ModifiedIsReplaced ==
    RanIncremental =>
      \A i \in 1..Len(parse_results) :
        LET r == parse_results[i]
            fresh == {CreateEntityInsertQuery(r.entities[x]).node : x \in 1..Len(r.entities)}
        IN r.file_path \in Range(results.modified) =>
             /\ {n \in nodes : OwnedBy(n, r.file_path)}
                  = {n \in fresh : n.type = "File" \/ n.file_id \in FileIdsOf(r.file_path)}
             /\ \A e \in edges :
                  (\E n \in nodes : OwnedBy(n, r.file_path) /\ e.from_id = n.id)
                     => e \in Range(r.relationships)

\* C6: a File node written by a run carries a hash, and it is the SHA-256 of
\* the bytes of the file, the value change detection computes.
C6_StoredHashIsContentHash ==
    Ran =>
      \A k \in 1..Len(oplog) :
        (oplog[k].op = "create_node" /\ oplog[k].type = "File" /\ oplog[k].applied) =>
           \A n \in nodes :
             (n.type = "File" /\ n.id = oplog[k].a) =>
               /\ n.hash # EmptyStr
               /\ n.hash = CalculateFileHash(fs[n.path])

\* C7: in an incremental run, a placeholder emitted by a reparsed file that
\* names an entity of an unchanged file becomes that entity's id.
UnchangedEntities ==
    Flatten([k \in 1..Len(results.unchanged) |->
               ParseFile(results.unchanged[k], fs[results.unchanged[k]], FALSE).entities])

C7_ResolvesAgainstUnchanged ==
    RanIncremental =>
      \A i \in 1..Len(parse_results) :
        \A j \in 1..Len(parse_results[i].relationships) :
          LET orig == Pass1(parse_results[i]).relationships[j]
              target == ResolveSymbolReference(RegisterAll(<<>>, UnchangedEntities),
                                               orig.to_id)
          IN (StartsWith(orig.to_id, Unresolved) /\ target # EmptyStr)
             => parse_results[i].relationships[j].to_id = target

\* C8: when the parse of one file of a run fails, every other file of the run
\* has its parse result resolved and all of its entities and resolved edges
\* submitted to the store.
ParseFailed(p) == p \in results.crashed \/ ~Readable(fs[p])

Submitted(op, a, b, type) ==
    \E k \in 1..Len(oplog) :
       oplog[k].op = op /\ oplog[k].a = a /\ oplog[k].b = b /\ oplog[k].type = type

FileSubmitted(p) ==
    \E i \in 1..Len(parse_results) :
       LET r == parse_results[i]
       IN /\ r.file_path = p
          /\ r = ResolveRelationships(symbol_registry, <<Pass1(r)>>)[1]
          /\ \A x \in 1..Len(r.entities) :
                Submitted("create_node", r.entities[x].id, EmptyStr, r.entities[x].type)
          /\ \A j \in 1..Len(r.relationships) :
                LET rel == r.relationships[j]
                IN (~StartsWith(rel.from_id, Unresolved) /\ ~StartsWith(rel.to_id, Unresolved))
                   => Submitted("create_edge", rel.from_id, rel.to_id, rel.relationship_type)

C8_FailureDoesNotAbort ==
    (Ran /\ \E q \in Range(results.files_to_parse) : ParseFailed(q)) =>
        \A p \in Range(results.files_to_parse) : ~ParseFailed(p) => FileSubmitted(p)

\* a run in which one file failed to parse and another file's File node was
\* created in the store
C8_Witness ==
    /\ Ran
    /\ \E q \in Range(results.files_to_parse) : ParseFailed(q)
    /\ \E p \in Range(results.files_to_parse) :
          /\ ~ParseFailed(p)
          /\ \E n \in nodes : \E k \in 1..Len(oplog) :
                /\ n.type = "File" /\ n.path = p
                /\ oplog[k].op = "create_node" /\ oplog[k].a = n.id /\ oplog[k].applied

\* C9: an incremental run that meets a ledger file it cannot read records
\* the error, does not reparse the file, keeps the file's ledger entry and
\* deletes none of the store's nodes.
C9_IOErrorKeepsLedger ==
    [][ (results'.kind = "incremental" /\ runs' = runs + 1) =>
          \A p \in DOMAIN file_hashes :
             fs[p] = Unreadable =>
                /\ results'.errors # <<>>
                /\ p \notin Range(results'.files_to_parse)
                /\ p \in DOMAIN file_hashes'
                /\ file_hashes'[p] = file_hashes[p]
                /\ nodes \subseteq nodes' ]_vars

\* C10: parsing a readable file whose text does not parse returns errors,
\* exactly one entity, the File entity, and no relationships.
C10_UnparseableKeepsFileEntity ==
    \A i \in 1..Len(parse_results) :
       LET r == parse_results[i]
       IN fs[r.file_path] \in BrokenContents =>
            /\ r.errors # <<>>
            /\ Len(r.entities) = 1
            /\ r.entities[1].type = "File"
            /\ r.relationships = <<>>

\* the error texts that come from parsing the files of the last run
ParseErrorsOfRun ==
    UNION {Range(parse_results[i].errors) : i \in 1..Len(parse_results)}
      \cup {<<"Parse error in">> \o p : p \in results.crashed}
      \cup {<<"raised in">> \o p : p \in results.crashed}

ConnectFailedInStorePass ==
    /\ \E k \in 1..Len(oplog) : oplog[k].op = "connect" /\ ~oplog[k].ok
    /\ \E k \in 1..Len(oplog) : oplog[k].op \in {"create_node", "create_edge"}

\* C11: a run whose store pass could not connect to the store returns an
\* error that tells so (every run returns: update_graph, force_full_update
\* and extract_from_directory catch every exception), i.e. its errors list
\* holds an entry that is not the parse error of a file.
C11_ConnectFailureIsReported ==
    (Ran /\ ConnectFailedInStorePass) =>
        \E e \in Range(results.errors) : e \notin ParseErrorsOfRun

\* C12: every error recorded in the parse result of a file of a run, full or
\* incremental, is in the errors list the run returns.
C12_ParseErrorsAreReturned ==
    Ran =>
      \A i \in 1..Len(parse_results) :
        \A e \in Range(parse_results[i].errors) : e \in Range(results.errors)

\* the full-run half of C12 on its own
FullRunReturnsParseErrors ==
    results.kind = "full" =>
      \A i \in 1..Len(parse_results) :
        \A e \in Range(parse_results[i].errors) : e \in Range(results.errors)

\* the module paths the specification calls external
IsExternalModulePath(module_path) ==
    \/ StartsWith(module_path, <<"@">>)
    \/ module_path \in WellKnownPackages
    \/ StartsWith(module_path, <<"node_modules">>)
    \/ ~(StartsWith(module_path, <<"./">>) \/ StartsWith(module_path, <<"../">>))

\* C13: an import of an external module path leaves the resolver pointing at
\* an ExternalModule stub named after the path, which is in the result of the
\* importing file; the stub and the IMPORTS edge are persisted.
C13_ExternalModuleStub ==
    Ran =>
      \A i \in 1..Len(parse_results) :
        \A j \in 1..Len(parse_results[i].relationships) :
          LET r == parse_results[i]
              rel == r.relationships[j]
              orig == Pass1(r).relationships[j]
              module_path == DropPrefix(orig.to_id, 2)
          IN (/\ StartsWith(orig.to_id, Unresolved \o <<"module_">>)
              /\ IsExternalModulePath(module_path))
             => /\ \E x \in 1..Len(r.entities) :
                     /\ r.entities[x].type = "ExternalModule"
                     /\ r.entities[x].name = module_path
                     /\ r.entities[x].id = rel.to_id
                /\ \E n \in nodes : n.type = "ExternalModule" /\ n.id = rel.to_id
                /\ rel \in edges

\* the <KIND> of FILE_CONTAINS_<KIND> for an entity type
KindOf(type) ==
    CASE type = "Module" -> "MODULE"
      [] type = "Class" -> "CLASS"
      [] type = "Function" -> "FUNCTION"
      [] type = "Variable" -> "VARIABLE"
      [] type = "Import" -> "IMPORT"
      [] OTHER -> type

FileContainsEdges(r, e) ==
    {j \in 1..Len(r.relationships) :
       /\ r.relationships[j].from_id = e.metadata.file_id
       /\ r.relationships[j].to_id = e.id
       /\ r.relationships[j].relationship_type = "FILE_CONTAINS_" \o KindOf(e.type)}

\* C14: in a parse result, every entity other than the File entity that
\* carries a file_id has exactly one FILE_CONTAINS_<KIND> edge from that File.
C14_ContainmentCoherence ==
    \A i \in 1..Len(parse_results) :
      \A x \in 1..Len(parse_results[i].entities) :
        LET e == parse_results[i].entities[x]
        IN (e.type # "File" /\ e.metadata.file_id # EmptyStr)
           => Cardinality(FileContainsEdges(parse_results[i], e)) = 1

\* C14 restricted to what is defined at module level
ModuleLevelContainment ==
    \A i \in 1..Len(parse_results) :
      \A x \in 1..Len(parse_results[i].entities) :
        LET e == parse_results[i].entities[x]
        IN (/\ e.type # "File" /\ e.metadata.file_id # EmptyStr
            /\ e.metadata.class_id = EmptyStr /\ e.type # "Variable")
           => Cardinality(FileContainsEdges(parse_results[i], e)) = 1

CountsMatchPartition ==
    /\ results.files_added = Len(results.added)
    /\ results.files_modified = Len(results.modified)
    /\ results.files_removed = Len(results.removed)
    /\ results.files_unchanged = Len(results.unchanged)

\* C15: the four file counters an incremental run returns are the sizes of
\* the added, modified, removed and unchanged sets of that run, also when
\* nothing changed.
C15_CountersMatchPartition == RanIncremental => CountsMatchPartition

\* C15 for the runs that found a change
CountersMatchWhenChanged ==
    (RanIncremental /\ (results.added # <<>> \/ results.modified # <<>>
                          \/ results.removed # <<>>))
       => CountsMatchPartition

\* C16: validate_schema reports valid exactly when the tables of the store
\* are the expected tables (whenever it could list them, and never
\* otherwise): invalid on a new store, and, with no table of another client
\* in the store, valid with nothing missing after a create_schema or a
\* reset_schema that returned True.
C16_ValidIffExpectedTables ==
    LET v == schema.validation
    IN v.done =>
         /\ v.valid => schema.tables = ExpectedTables
         /\ v.errors = {} =>
              /\ v.valid <=> schema.tables = ExpectedTables
              /\ v.missing_tables = ExpectedTables \ schema.tables
              /\ v.unexpected_tables = schema.tables \ ExpectedTables
         /\ schema.after = "init" => ~v.valid
         /\ (schema.after \in {"create_ok", "reset_ok"} /\ v.errors = {}) =>
              /\ v.missing_tables = {}
              /\ schema.tables \subseteq ExpectedTables => v.valid

\* a validation that found the schema valid after a successful reset
C16_Witness ==
    /\ schema.validation.done
    /\ schema.validation.valid
    /\ schema.after = "reset_ok"

\* C17: the classifier looks at the composite suffixes before the extension
\* map: a name that ends in .component.ts, .module.ts, .service.ts,
\* .guard.ts, .pipe.ts, .component.html or .component.css is "angular", any
\* other name that ends in .ts is "typescript", and a name that matches no
\* composite suffix and no entry of the map is None.
CompositeSuffixes ==
    {<<"component", "ts">>, <<"module", "ts">>, <<"service", "ts">>, <<"guard", "ts">>,
     <<"pipe", "ts">>, <<"component", "html">>, <<"component", "css">>}

HasCompositeSuffix(name) ==
    \E c \in CompositeSuffixes :
      /\ Len(name) >= 3
      /\ Lower(name[Len(name) - 1]) = c[1]
      /\ Lower(name[Len(name)]) = c[2]

MatchesNothing(name) ==
    /\ ~HasCompositeSuffix(name)
    /\ name # <<"Dockerfile">>
    /\ \/ Len(name) = 1
       \/ Lower(name[Len(name)]) \notin DOMAIN ExtensionMappings
       \/ Len(name) = 2 /\ name[1] = "" /\ name[2] \notin DOMAIN ExtensionMappings

C17_CompositeSuffixFirst ==
    call.fn = "get_file_type" =>
      /\ HasCompositeSuffix(call.arg) => call.ret = "angular"
      /\ (~HasCompositeSuffix(call.arg) /\ Len(call.arg) >= 2
            /\ call.arg[Len(call.arg)] = "ts") => call.ret = "typescript"
      /\ MatchesNothing(call.arg) => call.ret = "none"

\* app.component.ts was classified as angular
C17_Witness ==
    /\ call.fn = "get_file_type"
    /\ call.arg = <<"app", "component", "ts">>
    /\ call.ret = "angular"

\* C18: the store pass of a run de-duplicates the entities of all parse
\* results by ID: for every ID among them the prepared insertions hold
\* exactly one, it is the insertion of the first entity with that ID in
\* result order, it is executed, and the store never holds a later entity
\* with the same ID in its place.
FirstWithId(entities, id) ==
    entities[FirstIndex({i \in 1..Len(entities) : entities[i].id = id})]

C18_FirstOccurrenceWins ==
    Ran =>
      LET entities == AllEntities(parse_results)
          queries  == EntityQueries(parse_results)
      IN \A k \in 1..Len(entities) :
           LET id    == entities[k].id
               first == CreateEntityInsertQuery(FirstWithId(entities, id))
           IN /\ Cardinality({i \in 1..Len(queries) : queries[i].node.id = id}) = 1
              /\ \E i \in 1..Len(queries) : queries[i] = first
              /\ \A j \in 1..Len(entities) :
                   (entities[j].id = id /\ CreateEntityInsertQuery(entities[j]) # first)
                     => CreateEntityInsertQuery(entities[j]).node \notin nodes
              /\ \E i \in 1..Len(oplog) :
                   /\ oplog[i].op = "create_node"
                   /\ oplog[i].a = id

\* a run stored a file that declares f twice, and the store holds the first
C18_Witness ==
    /\ Ran
    /\ \E i, j \in 1..Len(AllEntities(parse_results)) :
         /\ i < j
         /\ AllEntities(parse_results)[i].id = AllEntities(parse_results)[j].id
         /\ AllEntities(parse_results)[i] # AllEntities(parse_results)[j]
         /\ CreateEntityInsertQuery(AllEntities(parse_results)[i]).node \in nodes

\* C19: when a run ends (the registry is not touched after the start of
\* pass 2), every entry of the symbol registry is an entity of a file that
\* is on disk in its current content: nothing is left of a file that was
\* removed or reparsed since an earlier run of the same extractor.
LiveEntities ==
    UNION {Range(ParseFile(p, fs[p], FALSE).entities) : p \in {q \in OnDisk : Readable(fs[q])}}

C19_RegistryHoldsOnlyLive ==
    Ran => \A i \in 1..Len(symbol_registry) : symbol_registry[i].entity \in LiveEntities

\* a full run registers exactly under fresh keys: every entity it parsed is
\* in the registry or lost its keys to an earlier entry
FullRunRegistersParsed ==
    (results.kind = "full" /\ results.crashed = {}) =>
      \A e \in Range(AllEntities(parse_results)) :
        \A k \in Range(SymbolKeys(symbol_registry, e)) : RegistryHas(symbol_registry, k)

\* C20: after any sequence of registrations, every key under which some
\* entity was registered maps to the entity with the highest score among
\* those registered under it (2 for a class_id plus 1 for a module_id), and
\* among those with that score to the one registered first.
Score(entity) ==
    (IF entity.metadata.class_id # EmptyStr THEN 2 ELSE 0)
    + (IF entity.metadata.module_id # EmptyStr THEN 1 ELSE 0)

RegisteredUnder(key) == {j \in 1..Len(call.arg) : key \in Range(call.arg[j].keys)}

Winner(key) ==
    CHOOSE j \in RegisteredUnder(key) :
      \A k \in RegisteredUnder(key) :
        \/ Score(call.arg[j].entity) > Score(call.arg[k].entity)
        \/ Score(call.arg[j].entity) = Score(call.arg[k].entity) /\ j <= k

C20_CollisionPolicy ==
    call.fn = "_register_symbol" =>
      /\ \A j \in 1..Len(call.arg) : \A key \in Range(call.arg[j].keys) :
           /\ RegistryHas(symbol_registry, key)
           /\ RegistryGet(symbol_registry, key) = call.arg[Winner(key)].entity
      /\ \A i \in 1..Len(symbol_registry) : RegisteredUnder(symbol_registry[i].key) # {}

\* key m was registered three times: a later, more specific entity took it
\* from the first, and an equally specific one after that did not
C20_Witness ==
    /\ call.fn = "_register_symbol"
    /\ Len(call.arg) = 3
    /\ \A j \in 1..3 : <<"m">> \in Range(call.arg[j].keys)
    /\ Score(call.arg[1].entity) < Score(call.arg[2].entity)
    /\ Score(call.arg[2].entity) = Score(call.arg[3].entity)
    /\ call.arg[2].entity # call.arg[3].entity
    /\ RegistryGet(symbol_registry, <<"m">>) = call.arg[2].entity

\* ------------------------------------------------------- order of the writes
IsDeleteStep(entry) == entry.op \in {"match_file_path", "delete_rel", "delete_node"}
IsInsert(entry) == entry.op \in {"create_node", "create_edge"}

\* C21: in an incremental run the delete step of every modified file has been
\* executed, and every query of every delete step precedes every insertion
\* of the reparse.
C21_DeletesBeforeInserts ==
    RanIncremental =>
      /\ (\E k \in 1..Len(oplog) : IsInsert(oplog[k])) =>
            \A p \in Range(results.modified) :
               \E k \in 1..Len(oplog) : oplog[k].op = "match_file_path" /\ oplog[k].a = p
      /\ \A k, j \in 1..Len(oplog) :
            (IsDeleteStep(oplog[k]) /\ IsInsert(oplog[j])) => k < j

\* an incremental run that ran the delete step of a modified file and then
\* inserted a node of the reparse
C21_Witness ==
    /\ RanIncremental
    /\ \E p \in Range(results.modified) : \E k, j \in 1..Len(oplog) :
          /\ oplog[k].op = "match_file_path" /\ oplog[k].a = p
          /\ oplog[j].op = "create_node" /\ oplog[j].applied
          /\ k < j

\* C22: in the store pass of a run every entity insertion, the row-by-row
\* retries of a failed entity batch included, is executed before the first
\* relationship insertion; in particular every insertion of a node that an
\* edge insertion names comes before that edge insertion.
C22_EntitiesBeforeEdges ==
    Ran =>
      \A k, j \in 1..Len(oplog) :
         (oplog[k].op = "create_node" /\ oplog[j].op = "create_edge") => k < j

\* a store pass in which an entity batch failed and was retried row by row,
\* and an edge between two inserted nodes was created afterwards
C22_Witness ==
    /\ Ran
    /\ \E k, j \in 1..Len(oplog) :
          /\ oplog[k].op = "create_node" /\ ~oplog[k].ok
          /\ oplog[j].op = "create_edge" /\ oplog[j].applied
          /\ Submitted("create_node", oplog[j].a, EmptyStr, "File")

\* ------------------------------------------------------- the delete step
\* what the delete steps of the run that just ended removed
DeletedNodeIds(log) ==
    {log[k].a : k \in {i \in 1..Len(log) : log[i].op = "delete_node" /\ log[i].applied}}
DeletedEdgesAt(log) ==
    {log[k].a : k \in {i \in 1..Len(log) : log[i].op = "delete_rel" /\ log[i].applied}}

C24_RejectedRowDoesNotAbort ==
    (Ran /\ \E k \in 1..Len(oplog) : oplog[k].op = "create_node" /\ ~oplog[k].ok) =>
       /\ \A i \in 1..Len(EntityQueries(parse_results)) :
             LET q == EntityQueries(parse_results)[i]
             IN /\ Submitted("create_node", q.node.id, EmptyStr, q.node.type)
                /\ \E n \in nodes : n.id = q.node.id /\ n.type = q.node.type
       /\ \A i \in 1..Len(RelationshipQueries(parse_results)) :
             LET q == RelationshipQueries(parse_results)[i]
             IN /\ Submitted("create_edge", q.edge.from_id, q.edge.to_id,
                             q.edge.relationship_type)
                /\ (HasNode(nodes, q.edge.from_id) /\ HasNode(nodes, q.edge.to_id))
                      => q.edge \in edges

\* a store pass in which a row was rejected and a row executed after it was
\* accepted and persisted
C24_Witness ==
    /\ Ran
    /\ \E k, j \in 1..Len(oplog) :
          /\ k < j
          /\ oplog[k].op = "create_node" /\ ~oplog[k].ok
          /\ oplog[j].op = "create_node" /\ oplog[j].applied
          /\ HasNode(nodes, oplog[j].a)

\* ------------------------------------------------- the completion barrier
\* C25: in a full extraction every step of the registry build, of the
\* resolution and of the store pass is taken by the orchestrator thread, and
\* when it is taken every parse task of the run has returned or raised.
C25_CompletionBarrier ==
    [][ ( \/ pool.pc \in {"register", "resolve", "store"} /\ pool'.pc # pool.pc
          \/ symbol_registry' # symbol_registry
          \/ parse_results' # parse_results
          \/ nodes' # nodes \/ edges' # edges \/ oplog' # oplog )
        => /\ Finished(pool.futures) = DOMAIN pool.futures
           /\ pool'.thread = "main" ]_vars

\* a full extraction of at least two files that has built its registry and
\* written nodes and edges
C25_Witness ==
    /\ pool.pc = "done"
    /\ Cardinality(DOMAIN pool.futures) >= 2
    /\ symbol_registry # <<>>
    /\ nodes # {}
    /\ edges # {}

\* ------------------------------------------------- the completion order
\* the edges a full extraction of the files of the disk persists into an
\* empty store with an empty registry, when the parse tasks complete in the
\* order completion and the tasks of the files in crash raise
FullRunEdges(completion, crash) ==
    LET Stored(pass1) ==
          StoreResults([nodes |-> {}, edges |-> {}, log |-> <<>>, ok |-> TRUE, up |-> TRUE],
                       ResolveRelationships(RegisterAll(<<>>, AllEntities(pass1)), pass1))
    IN Stored(ExtractEntitiesParallel(completion, crash)).edges

RaisedTasks == {p \in DOMAIN pool.futures : pool.futures[p] = "raised"}

\* C26: the edges a full extraction persisted are the edges it persists
\* under every other order of completion of the same parse tasks.
C26_EdgesIndependentOfCompletionOrder ==
    pool.pc = "done" =>
       \A completion \in Orderings(DOMAIN pool.futures) :
          FullRunEdges(completion, RaisedTasks) = edges

\* the same holds when no two files of the directory share a stem
SameStem == \E p, q \in DOMAIN pool.futures : p # q /\ PathStem(p) = PathStem(q)
EdgesIndependentWithoutCollision ==
    (pool.pc = "done" /\ ~SameStem) =>
       \A completion \in Orderings(DOMAIN pool.futures) :
          FullRunEdges(completion, RaisedTasks) = edges

\* ------------------------------------------------- rows applied twice
\* how often a relationship row is among the rows of the store pass, and how
\* often the store applied it during the pass
TimesQueued(rel) ==
    Cardinality({i \in 1..Len(RelationshipQueries(parse_results)) :
                   RelationshipQueries(parse_results)[i].edge = rel})
TimesApplied(rel) ==
    Cardinality({k \in 1..Len(oplog) :
                   /\ oplog[k].op = "create_edge" /\ oplog[k].applied
                   /\ oplog[k].a = rel.from_id /\ oplog[k].b = rel.to_id
                   /\ oplog[k].type = rel.relationship_type})

\* C27: the store applies every relationship row of a store pass at most as
\* often as the pass holds the row, also when a batch fails part-way and is
\* retried row by row.
C27_EdgeRowAppliedAtMostOnce ==
    Ran =>
      \A i \in 1..Len(RelationshipQueries(parse_results)) :
         LET rel == RelationshipQueries(parse_results)[i].edge
         IN TimesApplied(rel) <= TimesQueued(rel)

\* ------------------------------------------------ walker against can_parse
\* the files _find_parseable_files yields for a parser, whatever the order in
\* which os.walk lists the directory
Yielded(parser) == Range(FindParseableFiles(parser, SetToSeq(OnDisk)))

\* C28: for every parser and every file of the tree, the walker yields the
\* file for the parser exactly when the parser's can_parse accepts it; every
\* .py file that PythonASTParser.can_parse accepts is among the files a full
\* extraction of the directory parsed.
C28_WalkerYieldsWhatCanParseAccepts ==
    /\ \A i \in 1..Len(Parsers) : \A p \in OnDisk :
          (p \in Yielded(Parsers[i])) <=> CanParse(Parsers[i], p)
    /\ (results.kind = "full" /\ since = "full") =>
          \A p \in OnDisk :
             CanParse("python", p) =>
               \E i \in 1..Len(parse_results) : parse_results[i].file_path = p

\* the parsers that declare SUPPORTED_FILE_TYPES are walked by what their
\* can_parse accepts
WalkerAgreesForTypedParsers ==
    \A i \in 1..Len(Parsers) : \A p \in OnDisk :
       Parsers[i] # "python" =>
         ((p \in Yielded(Parsers[i])) <=> CanParse(Parsers[i], p))

\* ------------------------------------------- references spelled like tags
TaggedPrefixes == {"module_", "template_", "style_", "export_", "external_"}

\* the entities of the resolved files that carry the name a call refers to
Named(name) ==
    {i \in 1..Len(AllEntities(parse_results)) : AllEntities(parse_results)[i].name = name}

\* the CALLS relationship j of result i, as the Python parser emitted it, is
\* resolved to an entity of the called name when the tree defines the name
CallResolved(i, j) ==
    LET emitted == Pass1(parse_results[i]).relationships[j]
        name == DropPrefix(emitted.to_id, 1)
    IN (/\ emitted.relationship_type = "CALLS"
        /\ StartsWith(emitted.to_id, Unresolved)
        /\ Named(name) # {})
       => \E k \in Named(name) :
             parse_results[i].relationships[j].to_id = AllEntities(parse_results)[k].id

\* C29: a call that the Python parser emits as unresolved:<name>, with <name>
\* defined in the ingested files, is resolved to that definition whatever
\* the spelling of <name>, also when it starts with module_, template_,
\* style_, export_ or external_.
C29_UntaggedReferenceResolves ==
    call.fn = "_resolve_relationships" =>
      \A i \in 1..Len(parse_results) :
         GetParserForFile(parse_results[i].file_path) = "python" =>
           \A j \in 1..Len(parse_results[i].relationships) : CallResolved(i, j)

\* calls whose name does not start like a tag are resolved
PlainReferenceResolves ==
    call.fn = "_resolve_relationships" =>
      \A i \in 1..Len(parse_results) :
         GetParserForFile(parse_results[i].file_path) = "python" =>
           \A j \in 1..Len(parse_results[i].relationships) :
              LET ref == Pass1(parse_results[i]).relationships[j].to_id
              IN (Len(ref) < 2 \/ ref[2] \notin TaggedPrefixes) => CallResolved(i, j)

\* ------------------------------------------------- the empty directory
PoolSizeError == <<"max_workers must be greater than 0">>

\* C30: a full extraction over a directory without a parseable file
\* completes with zero files processed and an empty errors list.
C30_EmptyDirectoryCompletesCleanly ==
    (results.kind = "full" /\ Walk(SetToSeq(OnDisk)) = <<>>) =>
      /\ results.errors = <<>>
      /\ results.files_added = 0
      /\ results.total_files = 0
      /\ parse_results = <<>>

\* with at least one parseable file the pool is created with a valid size
PoolSizeValidWhenFilesExist ==
    (results.kind = "full" /\ Walk(SetToSeq(OnDisk)) # <<>>) =>
      \A i \in 1..Len(results.errors) : results.errors[i] # PoolSizeError
====
